---- MODULE Spec2Model ----
(***************************************************************************)
(* Kmart Stock Monitor: the monitoring engine of the background service    *)
(* worker (monitorTick, checkProduct, the message handlers), the product   *)
(* store and the anti-detection utilities (RateLimiter, backoffDelay).     *)
(*                                                                         *)
(* Times are milliseconds.  Prices are held in cents and compared as the   *)
(* IEEE doubles the source computes with.  Product names are sequences of  *)
(* lower-cased words.                                                      *)
(***************************************************************************)
EXTENDS Integers, Sequences, FiniteSets, TLC

VARIABLES
  products,    \* chrome.storage.local 'monitored_products': a list of product records
  settings,    \* chrome.storage.local 'user_settings' merged over DEFAULT_SETTINGS
  isChecking,  \* the single-flight flag of monitorTick
  tick,        \* the running monitorTick invocation: its position and its locals
  chk,         \* the checkProduct calls in flight, one per caller
  limiter,     \* RATE_LIMITER: timestamps, maxRequests, windowMs
  alarm,       \* the chrome.alarms entry 'kmart-monitor-tick'
  now,         \* Date.now()
  obs          \* observations of the run (history variables, read by no action)

vars == <<products, settings, isChecking, tick, chk, limiter, alarm, now, obs>>

----------------------------------------------------------------------------
(* Program constants *)

ERROR_THRESHOLD == 5
JUNK_NOTICE == 10
ERROR_FLOOR == 300000
BACKOFF_BASE == 1000
BACKOFF_CAP == 300000
BACKOFF_JITTER == 20
RL_MAX == 20
RL_WINDOW == 60000
PAUSE_BASE == 2000
ADD_CART_MAX_RETRIES == 3
ADD_CART_BASE_DELAY == 3000

(* Bounds of the model *)

MaxErrorCount == 6      \* failing checks are explored up to this errorCount
MaxClock == 2           \* the clock advances at most this many steps
MaxHistCap == 3         \* largest maxHistoryPerProduct explored
MaxStarts == 21         \* check starts explored by the rate-limit specifications
MaxEndClock == 1        \* clock steps of the specification of the end of a tick
MaxCartClock == 4       \* clock steps of the add-to-cart specification

Null == 0 - 1           \* JavaScript null / undefined for numeric fields
Epoch == 10 * ERROR_FLOOR   \* Date.now() when the model starts

StockStatuses == {"in_stock", "out_of_stock", "limited", "unknown"}
MonitorStates == {"active", "paused", "error"}
TickIds == {"tick1", "tick2"}          \* invocations of the alarm listener
NowIds == {"now1", "now2"}
Callers == TickIds \cup NowIds        \* callers of checkProduct ("now": CHECK_NOW)
EmptyRec == [x \in {} |-> 0]

----------------------------------------------------------------------------
(* Small helpers *)

Max(a, b) == IF a >= b THEN a ELSE b
Min(a, b) == IF a <= b THEN a ELSE b

\* { ...p, ...u } : object spread of a partial update over a record
Merge(p, u) == [f \in DOMAIN p |-> IF f \in DOMAIN u THEN u[f] ELSE p[f]]

Ids(ps) == {ps[i].id : i \in 1..Len(ps)}

----------------------------------------------------------------------------
(* isValidProductData: the validity classifier.  A name is a sequence of   *)
(* lower-cased words; a junk phrase matches where its words occur          *)
(* contiguously in the name.                                               *)

JunkPhrases ==
  { <<"page", "not", "found">>, <<"not", "found">>, <<"404">>, <<"error">>,
    <<"sorry">>, <<"oops">>, <<"something", "went", "wrong">>,
    <<"access", "denied">>, <<"just", "a", "moment">>, <<"unknown", "product">>,
    <<"can't", "be", "found">>, <<"cannot", "be", "found">>,
    <<"no", "longer", "available">>, <<"doesn't", "exist">>,
    <<"does", "not", "exist">>, <<"unavailable">>, <<"we", "couldn't", "find">>,
    <<"we", "could", "not", "find">>, <<"kmart", "australia">>,
    <<"attention", "required">>, <<"please", "verify">>,
    <<"checking", "your", "browser">> }

FillerWords ==
  {"the", "you", "your", "this", "that", "for", "are", "was", "were", "our", "please"}

\* number of characters of a word
WordLen(w) ==
  CASE w \in {"a", "x"} -> 1
    [] w \in {"tv", "be", "no", "we"} -> 2
    [] w \in {"set", "not", "404", "the", "you", "for", "are", "was", "our"} -> 3
    [] w \in {"lego", "page", "oops", "just", "went", "does", "find", "your",
              "this", "that", "were", "slug", "name"} -> 4
    [] OTHER -> 5

RECURSIVE CharLen(_)
\* name.trim().length: the words joined by single spaces
CharLen(name) ==
  IF name = <<>> THEN 0
  ELSE WordLen(Head(name)) + (IF Len(name) > 1 THEN 1 ELSE 0) + CharLen(Tail(name))

Contains(name, phrase) ==
  \E i \in 0..(Len(name) - Len(phrase)) :
     \A k \in 1..Len(phrase) : name[i + k] = phrase[k]

FillerCount(name) == Cardinality({i \in 1..Len(name) : name[i] \in FillerWords})

HasPrice(d) == d.price > 0
\* data.imageUrl.length
UrlLen(u) == CASE u = "" -> 0 [] u = "x.png" -> 5 [] OTHER -> 21

HasImage(d) == UrlLen(d.imageUrl) > 10

IsValidProductData(d) ==
  /\ ~(d.name = <<>> \/ CharLen(d.name) < 3)                    \* signal 1
  /\ ~(\E j \in JunkPhrases : Contains(d.name, j))              \* signal 2
  /\ ~(~HasPrice(d) /\ ~HasImage(d))                            \* signal 3
  /\ ~(Len(d.name) >= 6 /\ FillerCount(d.name) >= 3)            \* signal 4

\* the junk list of isValidProductData in background/service-worker.js
JunkNames ==
  { <<"page", "not", "found">>, <<"not", "found">>, <<"404">>, <<"error">>,
    <<"sorry">>, <<"oops">>, <<"something", "went", "wrong">>,
    <<"access", "denied">>, <<"just", "a", "moment">>, <<"unknown", "product">> }

\* isValidProductData of background/service-worker.js
IsValidProductDataWorker(d) ==
  /\ d.name # <<>>
  /\ ~(\E j \in JunkNames : Contains(d.name, j))
  /\ ~(CharLen(d.name) < 3)

\* nameFromUrl: the title-cased slug of the product URL
NameFromUrl(url) == <<"slug", "name">>

----------------------------------------------------------------------------
(* storage.js: the product list *)

HasProduct(ps, id) == \E i \in 1..Len(ps) : ps[i].id = id

GetProduct(ps, id) == ps[CHOOSE i \in 1..Len(ps) : ps[i].id = id]

\* updateProduct, for an id that is stored (it throws for one that is not)
UpdateProduct(ps, id, updates) ==
  [i \in 1..Len(ps) |-> IF ps[i].id = id THEN Merge(ps[i], updates) ELSE ps[i]]

RemoveProduct(ps, id) == SelectSeq(ps, LAMBDA p : p.id # id)

----------------------------------------------------------------------------
(* anti-detection utilities: jitter, backoffDelay, RateLimiter *)

\* the values (Math.random() * 2 - 1) * 100 explored: Math.random() is in [0, 1)
RandomPcts == {0 - 100, 0, 99}

\* Math.round of the rational n / d, d > 0: halves round up
RoundDiv(n, d) == (2 * n + d) \div (2 * d)

\* jitter(baseMs, jitterPct) = Math.round(baseMs * (1 + (r / 100) * (jitterPct / 100)))
\* with r = (Math.random() * 2 - 1) * 100
Jitter(baseMs, jitterPct, r) == baseMs + RoundDiv(baseMs * r * jitterPct, 10000)

RECURSIVE Pow2(_)
Pow2(n) == IF n = 0 THEN 1 ELSE 2 * Pow2(n - 1)

BackoffBeforeJitter(errorCount) == Min(BACKOFF_BASE * Pow2(errorCount), BACKOFF_CAP)

BackoffDelay(errorCount, r) == Jitter(BackoffBeforeJitter(errorCount), BACKOFF_JITTER, r)

NewRateLimiter(maxRequests, windowMs) ==
  [timestamps |-> <<>>, maxRequests |-> maxRequests, windowMs |-> windowMs]

InWindow(rl, t) == SelectSeq(rl.timestamps, LAMBDA x : t - x < rl.windowMs)

\* canRequest(): the limiter after its filter, and the answer
AfterCanRequest(rl, t) == [rl EXCEPT !.timestamps = InWindow(rl, t)]

CanRequestUpTo(rl, t) == Len(InWindow(rl, t)) <= rl.maxRequests

CanRequest(rl, t) == Len(InWindow(rl, t)) < rl.maxRequests

Record(rl, t) == [rl EXCEPT !.timestamps = Append(@, t)]

WaitTime(rl, t) ==
  IF CanRequest(rl, t) THEN 0
  ELSE InWindow(rl, t)[1] + rl.windowMs - t

----------------------------------------------------------------------------
(* checkProduct(product, settings).  p is the product record the caller   *)
(* passed (its copy, possibly older than the store), s the settings the   *)
(* caller loaded, t the Date.now() read when the call started, d the      *)
(* fetched data, ps the stored list when the fetch returns.               *)
(*                                                                         *)
(* failAt is what the storage does during the call: "none" every write    *)
(* succeeds, "log" the writes of the log (addLog) are rejected, "store"   *)
(* every write is rejected.  updateProduct also throws when the product   *)
(* is no longer stored.  fx lists the effects of the call in order.       *)

CanWrite(ps, id, failAt) == failAt # "store" /\ HasProduct(ps, id)
CanLog(failAt) == failAt = "none"

NewPrice(p, d) == IF d.price > 0 THEN d.price ELSE p.currentPrice

RestockedAfterOutOnly(p, d) ==
  d.stockStatus = "in_stock" /\ p.stockStatus = "out_of_stock"

Restocked(p, d) ==
  d.stockStatus = "in_stock" /\ p.stockStatus \in {"out_of_stock", "unknown"}

SoldOut(p, d) == d.stockStatus = "out_of_stock" /\ p.stockStatus = "in_stock"

PriceDecreased(p, d) ==
  NewPrice(p, d) > 0 /\ p.currentPrice > 0 /\ NewPrice(p, d) < p.currentPrice

----------------------------------------------------------------------------
(* JavaScript numbers.  A price is kept in the state as its number of      *)
(* cents; the checker computes with the double nearest to the decimal the  *)
(* page shows.  A positive double is [m, e] with value m * 2^e, where m is *)
(* a natural number of up to 54 bits held as a sequence of limbs, least    *)
(* significant first and without leading zero limbs.                       *)

LimbBits == 15
Limb == 2^LimbBits

RECURSIVE BigOf(_)
BigOf(n) == IF n = 0 THEN <<>> ELSE <<n % Limb>> \o BigOf(n \div Limb)

RECURSIVE BigTimesC(_, _, _)
BigTimesC(x, k, carry) ==
  IF x = <<>> THEN BigOf(carry)
  ELSE LET v == Head(x) * k + carry
       IN  <<v % Limb>> \o BigTimesC(Tail(x), k, v \div Limb)

\* x * k for a natural k < Limb
BigTimes(x, k) == IF k = 0 THEN <<>> ELSE BigTimesC(x, k, 0)

\* x * 2^k
Shl(x, k) ==
  IF x = <<>> THEN <<>>
  ELSE [i \in 1..(k \div LimbBits) |-> 0] \o BigTimes(x, 2^(k % LimbBits))

\* the number of bits of x
BitLen(x) ==
  IF x = <<>> THEN 0
  ELSE LimbBits * (Len(x) - 1)
       + (CHOOSE b \in 1..LimbBits : 2^(b - 1) <= x[Len(x)] /\ x[Len(x)] < 2^b)

RECURSIVE LessFrom(_, _, _)
LessFrom(x, y, i) ==
  IF i = 0 THEN FALSE
  ELSE IF x[i] # y[i] THEN x[i] < y[i]
  ELSE LessFrom(x, y, i - 1)

BigLess(x, y) ==
  IF Len(x) # Len(y) THEN Len(x) < Len(y) ELSE LessFrom(x, y, Len(x))

RECURSIVE Trim(_)
Trim(x) ==
  IF x # <<>> /\ x[Len(x)] = 0 THEN Trim(SubSeq(x, 1, Len(x) - 1)) ELSE x

RECURSIVE BigMinusB(_, _, _)
BigMinusB(x, y, borrow) ==
  IF x = <<>> THEN <<>>
  ELSE LET v == Head(x) - (IF y = <<>> THEN 0 ELSE Head(y)) - borrow
       IN  <<IF v < 0 THEN v + Limb ELSE v>>
           \o BigMinusB(Tail(x), IF y = <<>> THEN <<>> ELSE Tail(y),
                        IF v < 0 THEN 1 ELSE 0)

\* x - y for x >= y
BigMinus(x, y) == Trim(BigMinusB(x, y, 0))

BigOdd(x) == x # <<>> /\ Head(x) % 2 = 1

RECURSIVE BigSucc(_)
\* x + 1
BigSucc(x) ==
  IF x = <<>> THEN <<1>>
  ELSE IF Head(x) + 1 < Limb THEN <<Head(x) + 1>> \o Tail(x)
  ELSE <<0>> \o BigSucc(Tail(x))

MantissaBits == 53
DigitBits == 4

RECURSIVE Multiples(_, _)
\* <<d, 2 d, ..., k d>>
Multiples(d, k) ==
  IF k = 0 THEN <<>> ELSE Append(Multiples(d, k - 1), BigTimes(d, k))

\* the next digit of a long division is the number of multiples ds of the
\* divisor that are at most r
DigitOf(r, ds) == Cardinality({j \in 1..Len(ds) : ~BigLess(r, ds[j])})

\* the quotient m and the remainder r with one more digit
WithDigit(m, r, ds, digit) ==
  IF digit = 0 THEN [m |-> m, r |-> r]
  ELSE [m |-> <<Head(m) + digit>> \o Tail(m), r |-> BigMinus(r, ds[digit])]

ShiftedIn(m, r, ds) == WithDigit(m, r, ds, DigitOf(r, ds))

\* Long division, DigitBits bits at a time: q.m is the quotient so far and
\* q.r the remainder.  (q.m is never 0; the test makes TLC evaluate q before
\* it goes on.)
NextDigit(q, ds) ==
  IF q.m = <<>> THEN q
  ELSE ShiftedIn(Shl(q.m, DigitBits), Shl(q.r, DigitBits), ds)

RECURSIVE QuotientDigits(_, _, _)
\* for ds[1] <= n < 2 ds[1]: the leading 1 and the next k digits of n / ds[1]
QuotientDigits(n, ds, k) ==
  IF k = 0 THEN [m |-> <<1>>, r |-> BigMinus(n, ds[1])]
  ELSE NextDigit(QuotientDigits(n, ds, k - 1), ds)

\* round to nearest, ties to even: TRUE when the quotient m is rounded up,
\* for twice the remainder r2 and the divisor d
Away(m, r2, d) == BigLess(d, r2) \/ (r2 = d /\ BigOdd(m))

RoundOff(q, d, exp) ==
  [ m |-> IF Away(q.m, Shl(q.r, 1), d) THEN BigSucc(q.m) ELSE q.m,
    e |-> exp - (MantissaBits - 1) ]

\* for d <= n < 2 d
Divide(n, d, exp) ==
  RoundOff(QuotientDigits(n, Multiples(d, 2^DigitBits - 1),
                          (MantissaBits - 1) \div DigitBits), d, exp)

\* for 2^exp <= n / d < 2^(exp + 1)
RoundAt(n, d, exp) ==
  Divide(IF exp < 0 THEN Shl(n, 0 - exp) ELSE n,
         IF exp > 0 THEN Shl(d, exp) ELSE d, exp)

\* the exp with 2^exp <= n / d < 2^(exp + 1), which is len or len - 1
ExponentNear(n, d, len) ==
  IF len >= 0
  THEN (IF BigLess(n, Shl(d, len)) THEN len - 1 ELSE len)
  ELSE (IF BigLess(Shl(n, 0 - len), d) THEN len - 1 ELSE len)

\* the double nearest to n / d, ties to even, for n > 0 and d > 0 (the
\* operands are evaluated first, as a and b)
RoundToDouble(n, d) ==
  CHOOSE q \in {RoundAt(a, b, ExponentNear(a, b, BitLen(a) - BitLen(b))) :
                   a \in {n}, b \in {d}} : TRUE

Scaled(x, k) == [m |-> x.m, e |-> x.e + k]

\* parseFloat of a price with two decimals
ParsePrice(cents) == RoundToDouble(BigOf(cents), BigOf(100))

\* x - y for doubles x > y > 0
FlMinus(x, y) ==
  Scaled(RoundToDouble(BigMinus(Shl(x.m, x.e - Min(x.e, y.e)),
                                Shl(y.m, y.e - Min(x.e, y.e))), <<1>>),
         Min(x.e, y.e))

\* x / y for doubles x > 0, y > 0
FlDiv(x, y) == Scaled(RoundToDouble(x.m, y.m), x.e - y.e)

\* x * k for a double x > 0 and a small natural k > 0
FlTimes(x, k) == Scaled(RoundToDouble(BigTimes(x.m, k), <<1>>), x.e)

\* x >= k for a double x > 0 and a natural k
FlAtLeast(x, k) ==
  IF x.e >= 0 THEN ~BigLess(Shl(x.m, x.e), BigOf(k))
  ELSE ~BigLess(x.m, Shl(BigOf(k), 0 - x.e))

\* ((oldPrice - newPrice) / oldPrice) * 100, for 0 < newPrice < oldPrice
DropPctOf(old, new) == FlTimes(FlDiv(FlMinus(old, new), old), 100)

DropPct(oldPrice, newPrice) == DropPctOf(ParsePrice(oldPrice), ParsePrice(newPrice))

----------------------------------------------------------------------------

\* dropPct >= settings.priceDropThreshold, for a decreased price
DropReachesThreshold(p, d, s) ==
  FlAtLeast(DropPct(p.currentPrice, NewPrice(p, d)), s.priceDropThreshold)

PriceDrop(p, d, s) == PriceDecreased(p, d) /\ DropReachesThreshold(p, d, s)

Snapshot(p, d, t) ==
  [timestamp |-> t, price |-> NewPrice(p, d), stockStatus |-> d.stockStatus]

\* [snapshot, ...product.history], cut to settings.maxHistoryPerProduct
NewHistory(p, d, s, t) ==
  LET history == <<Snapshot(p, d, t)>> \o p.history
  IN  IF Len(history) > s.maxHistoryPerProduct
      THEN SubSeq(history, 1, s.maxHistoryPerProduct)
      ELSE history

ValidUpdates(p, d, s, t) ==
  [ currentPrice |-> NewPrice(p, d),
    stockStatus |-> d.stockStatus,
    lastChecked |-> t,
    errorCount |-> 0,
    lastError |-> "null",
    history |-> NewHistory(p, d, s, t),
    name |-> IF d.name # <<>> /\ CharLen(d.name) > 3 THEN d.name ELSE p.name,
    imageUrl |-> IF d.imageUrl # "" THEN d.imageUrl ELSE p.imageUrl ]
  @@ (IF p.monitorState = "error" THEN [monitorState |-> "active"] ELSE EmptyRec)
  @@ (IF Restocked(p, d) THEN [lastInStock |-> t] ELSE EmptyRec)
  @@ (IF PriceDecreased(p, d) THEN [previousPrice |-> p.currentPrice] ELSE EmptyRec)

If(c, fx) == IF c THEN fx ELSE <<>>

\* settings.webhookEnabled && settings.webhookUrl
WebhookOn(s) == s.webhookEnabled /\ s.webhookUrl # ""

RecoveryFx(p) == If(p.monitorState = "error", <<"log:recovered">>)

AutoAddAlways(p, s) == TRUE

\* if (product.autoAddToCart || settings.globalAutoAdd)
AutoAddOn(p, s) == p.autoAddToCart \/ s.globalAutoAdd

RestockFx(p, d, s) ==
  If(Restocked(p, d),
     <<"log:in_stock">>
     \o If(s.notificationsEnabled, <<"notify:in_stock">>)
     \o If(s.audioAlertEnabled, <<"audio">>)
     \o If(WebhookOn(s), <<"webhook:in_stock">>)
     \o If(AutoAddOn(p, s), <<"add_to_cart">>))

SoldOutFx(p, d) == If(SoldOut(p, d), <<"log:out_of_stock">>)

PriceDropFx(p, d, s) ==
  If(PriceDrop(p, d, s),
     <<"log:price_change">>
     \o If(s.notificationsEnabled, <<"notify:price_drop">>)
     \o If(s.audioAlertEnabled, <<"audio">>)
     \o If(WebhookOn(s), <<"webhook:price_drop">>))

\* the effects of a valid check that precede its updateProduct
DispatchFx(p, d, s) ==
  RecoveryFx(p) \o RestockFx(p, d, s) \o SoldOutFx(p, d) \o PriceDropFx(p, d, s)

\* the valid path: every block of DispatchFx starts with an addLog
ValidPathWith(ps, id, failAt, fx, ps1) ==
  IF fx # <<>> /\ ~CanLog(failAt) THEN [ps |-> ps, fx |-> <<>>, ok |-> FALSE]
  ELSE IF ~CanWrite(ps, id, failAt) THEN [ps |-> ps, fx |-> fx, ok |-> FALSE]
  ELSE IF ~CanLog(failAt)
       THEN [ps |-> ps1, fx |-> fx \o <<"update">>, ok |-> FALSE]
  ELSE [ps |-> ps1, fx |-> fx \o <<"update", "log:check">>, ok |-> TRUE]

ValidPath(ps, p, s, t, d, failAt) ==
  ValidPathWith(ps, p.id, failAt, DispatchFx(p, d, s),
                UpdateProduct(ps, p.id, ValidUpdates(p, d, s, t)))

\* repair of a stored name that is itself junk
NameFix(p) ==
  IF ~IsValidProductData([name |-> p.name, price |-> p.currentPrice,
                          imageUrl |-> p.imageUrl])
  THEN [name |-> NameFromUrl(p.url)]
  ELSE EmptyRec

\* the invalid-data path
JunkPath(ps, p, s, t, d, failAt) ==
  LET updates == [lastChecked |-> t, errorCount |-> p.errorCount + 1,
                  lastError |-> "invalid"] @@ NameFix(p)
      ps1 == UpdateProduct(ps, p.id, updates)
      notice == If(p.errorCount + 1 = JUNK_NOTICE /\ s.notificationsEnabled,
                   <<"notify:gone">>)
  IN  IF ~CanWrite(ps, p.id, failAt) THEN [ps |-> ps, fx |-> <<>>, ok |-> FALSE]
      ELSE IF ~CanLog(failAt) THEN [ps |-> ps1, fx |-> <<"update">>, ok |-> FALSE]
      ELSE [ps |-> ps1, fx |-> <<"update", "log:error">> \o notice, ok |-> TRUE]

\* the try block; res is the outcome of fetchProductData
TryBlock(ps, p, s, t, res, failAt) ==
  IF res.kind = "throw" THEN [ps |-> ps, fx |-> <<>>, ok |-> FALSE]
  ELSE IF ~IsValidProductData(res) THEN JunkPath(ps, p, s, t, res, failAt)
  ELSE ValidPath(ps, p, s, t, res, failAt)

\* the error threshold of the catch block
AtErrorThreshold(p) == p.errorCount + 1 = ERROR_THRESHOLD

\* the catch block, entered with the store and effects r of the failed try
CatchBlock(r, p, s, t, failAt) ==
  LET updates == [lastChecked |-> t, errorCount |-> p.errorCount + 1,
                  lastError |-> "thrown"]
      ps1 == UpdateProduct(r.ps, p.id, updates)
      ps2 == IF AtErrorThreshold(p)
             THEN UpdateProduct(ps1, p.id, [monitorState |-> "error"])
             ELSE ps1
      fx2 == If(AtErrorThreshold(p),
                <<"update:error">> \o If(s.notificationsEnabled, <<"notify:error">>))
  IN  IF ~CanWrite(r.ps, p.id, failAt)
      THEN [ps |-> r.ps, fx |-> r.fx, threw |-> TRUE]
      ELSE IF ~CanLog(failAt)
           THEN [ps |-> ps1, fx |-> r.fx \o <<"update">>, threw |-> TRUE]
      ELSE [ps |-> ps2, fx |-> r.fx \o <<"update", "log:error">> \o fx2,
            threw |-> FALSE]

\* how the fetched data was classified
Classify(res) ==
  IF res.kind = "throw" THEN "fetchfail"
  ELSE IF IsValidProductData(res) THEN "valid" ELSE "junk"

\* checkProduct: the stored list and effects it leaves, whether it threw to
\* its caller, and whether its catch block ran
Caught(c) == [ps |-> c.ps, fx |-> c.fx, threw |-> c.threw, caught |-> TRUE]

\* r is what the try block left
AfterTry(r, p, s, t, failAt) ==
  IF r.ok
  THEN [ps |-> r.ps, fx |-> r.fx, threw |-> FALSE, caught |-> FALSE]
  ELSE Caught(CatchBlock(r, p, s, t, failAt))

CheckProduct(ps, p, s, t, res, failAt) ==
  AfterTry(TryBlock(ps, p, s, t, res, failAt), p, s, t, failAt)

----------------------------------------------------------------------------
(* The alarm (chrome.alarms) and ensureAlarmRunning *)

NoAlarm == [armed |-> FALSE, period |-> 0, scheduledTime |-> 0]

IsEligible(p) == p.monitorState \in {"active", "error"}

Eligible(ps) == SelectSeq(ps, IsEligible)

\* the alarm period in ms: Math.max(checkIntervalSeconds / 60, 10 / 60) minutes
AlarmPeriod(s) == Max(s.checkIntervalSeconds * 1000, 10000)

Abs(x) == IF x < 0 THEN 0 - x ELSE x

\* ensureAlarmRunning on stored products ps and settings s at time t
EnsureAlarmRunning(ps, s, al, t) ==
  IF Eligible(ps) = <<>> THEN NoAlarm
  ELSE IF ~al.armed \/ Abs(al.period - AlarmPeriod(s)) > 600
       THEN [armed |-> TRUE, period |-> AlarmPeriod(s), scheduledTime |-> t + 3000]
       ELSE al

----------------------------------------------------------------------------
(* monitorTick *)

IdleTick == [pc |-> "idle"]
IdleCheck == [pc |-> "idle"]
NoCheck == [kind |-> "none"]

EntryGuardAlwaysPasses(flag) == TRUE

\* if (isChecking) return;
EntryGuardPasses(flag) == ~flag

\* the backoff gate: TRUE when the tick goes on to check product p at time t
Due(p, t, r) ==
  IF p.errorCount > 0
  THEN LET minDelay == IF p.monitorState = "error" THEN ERROR_FLOOR ELSE 0
           delay == Max(BackoffDelay(p.errorCount, r), minDelay)
           since == t - (IF p.lastChecked = Null THEN 0 ELSE p.lastChecked)
       IN  ~(since < delay)
  ELSE TRUE

\* Math.random() is drawn only for the products that reach backoffDelay
Draws(e) == [{i \in 1..Len(e) : e[i].errorCount > 0} -> RandomPcts]

Draw(e, i, rs) == IF e[i].errorCount > 0 THEN rs[i] ELSE 0

RECURSIVE LoopFrom(_, _, _, _, _)
RECURSIVE GateFrom(_, _, _, _, _)

\* The for loop from product i of the eligible list e, run at time t until it
\* suspends: in the sleep of the rate limiter (rlwait), in checkProduct
\* (check), or after the loop in closeMonitorTab (closing).  rs are the draws
\* of Math.random() in backoffDelay, one per product.
LoopFrom(e, i, rl, t, rs) ==
  IF i > Len(e) THEN [pc |-> "closing", i |-> i, rl |-> rl, wake |-> 0]
  ELSE IF ~CanRequest(rl, t)
       THEN [pc |-> "rlwait", i |-> i, rl |-> AfterCanRequest(rl, t),
             wake |-> t + WaitTime(rl, t)]
       ELSE GateFrom(e, i, AfterCanRequest(rl, t), t, rs)

\* the loop body after the rate-limit gate
GateFrom(e, i, rl, t, rs) ==
  IF Due(e[i], t, Draw(e, i, rs))
  THEN [pc |-> "check", i |-> i, rl |-> rl, wake |-> 0]
  ELSE LoopFrom(e, i + 1, rl, t, rs)

Quiet == [obs EXCEPT !.last = NoCheck]

\* obs.starts: the times at which checkProduct was called, when counted
Started(o, t) ==
  IF o.counting /\ Len(o.starts) < MaxStarts
  THEN [o EXCEPT !.starts = Append(@, t)]
  ELSE o

\* the tick calls checkProduct with its copy p of a product: the copy and
\* what is stored of the product at that time
StartOf(k, p) ==
  [ kind |-> "start", caller |-> k, id |-> p.id, t |-> now,
    errorCount |-> p.errorCount, state |-> p.monitorState,
    lastChecked |-> p.lastChecked,
    was |-> IF HasProduct(products, p.id)
            THEN GetProduct(products, p.id).monitorState ELSE "removed",
    wasChecked |-> IF HasProduct(products, p.id)
                   THEN GetProduct(products, p.id).lastChecked ELSE Null ]

\* the tick and its checkProduct call after a synchronous run r of the loop
TickAfter(k, s, e, r) ==
  /\ obs' = IF r.pc = "check"
            THEN [Started(obs, now) EXCEPT !.last = StartOf(k, e[r.i])]
            ELSE Quiet
  /\ tick' = [tick EXCEPT ![k] = [pc |-> r.pc, s |-> s, e |-> e, i |-> r.i,
                                   wake |-> r.wake]]
  /\ chk' = [chk EXCEPT ![k] = IF r.pc = "check"
                                THEN [pc |-> "fetch", p |-> e[r.i], s |-> s, t |-> now,
                                      seen |-> StartOf(k, e[r.i]).was]
                                ELSE IdleCheck]
  /\ limiter' = r.rl

\* k is the next free invocation of the listener
FreshInvocation(k) ==
  /\ tick[k].pc = "idle"
  /\ k = "tick2" => tick["tick1"].pc # "idle"

\* chrome.alarms.onAlarm: the alarm fires and invocation k enters monitorTick
OnAlarm(k) ==
  /\ alarm.armed /\ now >= alarm.scheduledTime
  /\ FreshInvocation(k)
  /\ alarm' = [alarm EXCEPT !.scheduledTime = now + alarm.period]
  /\ IF EntryGuardPasses(isChecking)
     THEN /\ isChecking' = TRUE
          /\ tick' = [tick EXCEPT ![k] = [pc |-> "load"]]
          /\ obs' = Quiet
     ELSE /\ UNCHANGED <<isChecking, tick>>
          /\ obs' = [obs EXCEPT !.last = [kind |-> "dropped"]]
  /\ UNCHANGED <<products, settings, chk, limiter, now>>

\* getSettings, getProducts, the eligible filter, and the loop up to its
\* first suspension
TickLoad(k) ==
  /\ tick[k].pc = "load"
  /\ LET e == Eligible(products)
     IN  IF e = <<>>
         THEN /\ isChecking' = FALSE
              /\ tick' = [tick EXCEPT ![k] = IdleTick]
              /\ obs' = Quiet
              /\ UNCHANGED <<chk, limiter>>
         ELSE /\ \E rs \in Draws(e) :
                   TickAfter(k, settings, e, LoopFrom(e, 1, limiter, now, rs))
              /\ UNCHANGED isChecking
  /\ UNCHANGED <<products, settings, alarm, now>>

AfterRateSleepSkips(e, i, rl, t, rs) == LoopFrom(e, i + 1, rl, t, rs)

\* the statement after the if block of the rate-limit gate: the loop body
\* goes on with the same product, canRequest is not asked again
AfterRateSleep(e, i, rl, t, rs) == GateFrom(e, i, rl, t, rs)

\* the sleep of the rate-limit gate ends; the loop goes on at the backoff gate
TickWake(k) ==
  /\ tick[k].pc = "rlwait" /\ now >= tick[k].wake
  /\ \E rs \in Draws(tick[k].e) :
        TickAfter(k, tick[k].s, tick[k].e,
                  AfterRateSleep(tick[k].e, tick[k].i, limiter, now, rs))
  /\ UNCHANGED <<products, settings, isChecking, alarm, now>>

\* the pause between products ends; the loop goes on with the next product
TickPauseDone(k) ==
  /\ tick[k].pc = "pause"
  /\ \E rs \in Draws(tick[k].e) :
        TickAfter(k, tick[k].s, tick[k].e,
                  LoopFrom(tick[k].e, tick[k].i + 1, limiter, now, rs))
  /\ UNCHANGED <<products, settings, isChecking, alarm, now>>

FinallyOnReturnOnly(threw) == threw

\* finally { isChecking = false; }: the flag after the try block of
\* monitorTick, whether the block returned or threw
Finally(threw) == FALSE

\* closeMonitorTab: chrome.tabs.remove and monitorTabId = null, where the
\* monitor tab is followed (obs.monitorTabId: 0 for null, else the tab's id)
CloseMonitorTab(o) ==
  IF "monitorTabId" \in DOMAIN o THEN [o EXCEPT !.monitorTabId = 0] ELSE o

\* closeMonitorTab, refreshBadge, and the finally block
TickClose(k) ==
  /\ tick[k].pc = "closing"
  /\ tick' = [tick EXCEPT ![k] = IdleTick]
  /\ isChecking' = Finally(FALSE)
  /\ obs' = CloseMonitorTab(Quiet)
  /\ UNCHANGED <<products, settings, chk, limiter, alarm, now>>

\* the body of monitorTick throws at `at' and the function ends through its
\* finally block
TickThrows(k, at) ==
  /\ tick' = [tick EXCEPT ![k] = IdleTick]
  /\ isChecking' = Finally(TRUE)
  /\ obs' = [obs EXCEPT !.last = [kind |-> "tickthrew", caller |-> k, at |-> at]]
  /\ UNCHANGED <<products, settings, chk, limiter, alarm, now>>

\* getSettings or getProducts rejects
TickLoadThrows(k) == tick[k].pc = "load" /\ TickThrows(k, "load")

\* closeMonitorTab or refreshBadge rejects
TickCloseThrows(k) == tick[k].pc = "closing" /\ TickThrows(k, "cleanup")

----------------------------------------------------------------------------
(* Observations *)

\* the stored copy of product id, or a record that says it is not stored
Stored(ps, id) ==
  IF HasProduct(ps, id) THEN GetProduct(ps, id) ELSE [id |-> 0, monitorState |-> "removed"]

\* 0 when product id is stored active with errorCount 0, else Null
FromClean(ps, id) ==
  IF HasProduct(ps, id) /\ GetProduct(ps, id).monitorState = "active"
                        /\ GetProduct(ps, id).errorCount = 0
  THEN 0 ELSE Null

\* obs.streak[id]: the number of failed checks completed in a row, with the
\* storage working, since product id was stored active with errorCount 0 and
\* touched by nothing else; Null when that is not known
StreakAfterCheck(id, kind, failAt, ps) ==
  IF kind = "valid" \/ failAt # "none" THEN FromClean(ps, id)
  ELSE IF obs.streak[id] = Null THEN Null
  ELSE Min(obs.streak[id] + 1, MaxErrorCount)

ObservedCheck(c, res, failAt, r) ==
  [ obs EXCEPT
      !.last = [ kind |-> Classify(res), caller |-> c, id |-> chk[c].p.id,
                 oldStatus |-> chk[c].p.stockStatus,
                 oldPrice |-> chk[c].p.currentPrice,
                 oldLastInStock |-> chk[c].p.lastInStock, d |-> res, t |-> chk[c].t,
                 threshold |-> chk[c].s.priceDropThreshold,
                 seen |-> chk[c].seen,
                 was |-> Stored(products, chk[c].p.id).monitorState,
                 failAt |-> failAt, fx |-> r.fx, threw |-> r.threw ],
      !.streak[chk[c].p.id] =
          StreakAfterCheck(chk[c].p.id, Classify(res), failAt, r.ps) ]

\* obs.restocks, where it is kept: the number of checks so far that
\* dispatched a restock alert, counted up to 2
RestockAlerts == {"notify:in_stock", "webhook:in_stock", "add_to_cart"}

CountRestock(o, fx) ==
  IF "restocks" \in DOMAIN o /\ \E i \in 1..Len(fx) : fx[i] \in RestockAlerts
  THEN [o EXCEPT !.restocks = Min(@ + 1, 2)]
  ELSE o

ObserveCheck(c, res, failAt, r) ==
  CountRestock(ObservedCheck(c, res, failAt, r), r.fx)

\* nothing observed yet; counting says whether obs.starts is kept
NoObs(ps, counting) ==
  [ last |-> NoCheck, streak |-> [id \in Ids(ps) |-> FromClean(ps, id)],
    counting |-> counting, starts |-> <<>> ]

ObserveUser(ps) ==
  [ obs EXCEPT !.last = NoCheck,
               !.streak = [id \in DOMAIN obs.streak |-> FromClean(ps, id)] ]

\* the last step completed a check of a product that is still stored
Checked(kinds) ==
  /\ obs.last.kind \in kinds
  /\ HasProduct(products, obs.last.id)

\* the last check left effect e
Emits(e) == \E i \in 1..Len(obs.last.fx) : obs.last.fx[i] = e

----------------------------------------------------------------------------
(* checkProduct called by the tick and by CHECK_NOW *)

FetchThrows ==
  [kind |-> "throw", name |-> <<>>, price |-> 0, imageUrl |-> "", stockStatus |-> "unknown"]

Data(name, price, imageUrl, stockStatus) ==
  [kind |-> "data", name |-> name, price |-> price, imageUrl |-> imageUrl,
   stockStatus |-> stockStatus]

AfterCheckRethrows(threw) == IF threw THEN "closing" ELSE "pause"

\* the try/catch around checkProduct in the loop of monitorTick: whether or
\* not checkProduct threw, the loop goes on to the pause between products
AfterCheck(threw) == "pause"

\* what checkProduct, with outcome r, and its caller c leave behind
Returned(c, res, failAt, r) ==
  /\ products' = r.ps
  /\ obs' = ObserveCheck(c, res, failAt, r)
  /\ IF c \in TickIds
     THEN /\ limiter' = IF r.threw THEN limiter ELSE Record(limiter, now)
          /\ tick' = [tick EXCEPT ![c].pc = AfterCheck(r.threw)]
     ELSE UNCHANGED <<limiter, tick>>

\* fetchProductData returns res to caller c, and checkProduct runs to its end
CheckReturns(c, res, failAt) ==
  /\ chk[c].pc = "fetch"
  /\ Classify(res) # "valid" \/ failAt # "none" => chk[c].p.errorCount < MaxErrorCount
  /\ Returned(c, res, failAt,
              CheckProduct(products, chk[c].p, chk[c].s, chk[c].t, res, failAt))
  /\ chk' = [chk EXCEPT ![c] = IdleCheck]
  /\ UNCHANGED <<settings, isChecking, alarm, now>>

\* CHECK_NOW: getProduct, getSettings, and the start of checkProduct
CheckNow(c, id) ==
  /\ chk[c].pc = "idle"
  /\ c = "now2" => chk["now1"].pc # "idle"
  /\ HasProduct(products, id)
  /\ chk' = [chk EXCEPT ![c] = [pc |-> "fetch", p |-> GetProduct(products, id),
                                     s |-> settings, t |-> now,
                                     seen |-> GetProduct(products, id).monitorState]]
  /\ obs' = Started(Quiet, now)
  /\ UNCHANGED <<products, settings, isChecking, tick, limiter, alarm, now>>

----------------------------------------------------------------------------
(* The other message handlers *)

ToggleMonitor(id) ==
  /\ HasProduct(products, id)
  /\ LET product == GetProduct(products, id)
         newState == IF product.monitorState = "active" THEN "paused" ELSE "active"
         ps == UpdateProduct(products, id,
                 [monitorState |-> newState, errorCount |-> 0, lastError |-> "null"])
     IN  /\ products' = ps
         /\ alarm' = EnsureAlarmRunning(ps, settings, alarm, now)
         /\ obs' = [obs EXCEPT !.last = [kind |-> "toggle", id |-> id,
                                         was |-> product.monitorState],
                                !.streak[id] = FromClean(ps, id)]
  /\ UNCHANGED <<settings, isChecking, tick, chk, limiter, now>>

\* REMOVE_PRODUCT: removeProduct, ensureAlarmRunning
RemoveProductMsg(id) ==
  /\ HasProduct(products, id)
  /\ products' = RemoveProduct(products, id)
  /\ alarm' = EnsureAlarmRunning(products', settings, alarm, now)
  /\ obs' = [Quiet EXCEPT !.streak = [i \in Ids(products') |-> obs.streak[i]]]
  /\ UNCHANGED <<settings, isChecking, tick, chk, limiter, now>>

StartAll ==
  /\ LET ps == [i \in 1..Len(products) |->
                  Merge(products[i], [monitorState |-> "active", errorCount |-> 0,
                                      lastError |-> "null"])]
     IN  /\ products' = ps
         /\ alarm' = EnsureAlarmRunning(ps, settings, alarm, now)
         /\ obs' = ObserveUser(ps)
  /\ UNCHANGED <<settings, isChecking, tick, chk, limiter, now>>

StopAll ==
  /\ LET ps == [i \in 1..Len(products) |->
                  Merge(products[i], [monitorState |-> "paused"])]
     IN  /\ products' = ps
         /\ obs' = ObserveUser(ps)
  /\ alarm' = NoAlarm
  /\ UNCHANGED <<settings, isChecking, tick, chk, limiter, now>>

\* time passes
AdvanceWithin(d, n) ==
  /\ (now - Epoch) \div d < n
  /\ now' = now + d
  /\ obs' = [Quiet EXCEPT !.starts = SelectSeq(@, LAMBDA ts : now + d - ts < RL_WINDOW)]
  /\ UNCHANGED <<products, settings, isChecking, tick, chk, limiter, alarm>>

Advance(d) == AdvanceWithin(d, MaxClock)

----------------------------------------------------------------------------
(* The engine: ticks, manual checks and the monitor switches *)

GoodName == <<"lego", "set">>
JunkName == <<"just", "a", "moment">>
ImageUrl == "https://kmart/img.jpg"

DefaultSettings ==
  [ checkIntervalSeconds |-> 30, jitterPercent |-> 15, maxProducts |-> 50,
    globalAutoAdd |-> FALSE, notificationsEnabled |-> TRUE,
    audioAlertEnabled |-> TRUE, priceDropThreshold |-> 10,
    webhookUrl |-> "", webhookEnabled |-> FALSE, maxHistoryPerProduct |-> 500 ]

\* the product ADD_PRODUCT stores for a live page
NewProduct(id, d, t) ==
  [ id |-> id, url |-> id,
    name |-> IF d.name # <<>> /\ CharLen(d.name) > 3 THEN d.name
             ELSE NameFromUrl(id),
    imageUrl |-> d.imageUrl, currentPrice |-> d.price, previousPrice |-> Null,
    stockStatus |-> d.stockStatus, monitorState |-> "active", lastChecked |-> t,
    lastInStock |-> IF d.stockStatus = "in_stock" THEN t ELSE Null,
    errorCount |-> 0, lastError |-> "null", autoAddToCart |-> FALSE,
    history |-> << [timestamp |-> t, price |-> d.price,
                    stockStatus |-> d.stockStatus] >> ]

\* the product ADD_PRODUCT stores for a page that is down
DownProduct(id, t) ==
  [ id |-> id, url |-> id, name |-> NameFromUrl(id), imageUrl |-> "",
    currentPrice |-> 0, previousPrice |-> Null, stockStatus |-> "out_of_stock",
    monitorState |-> "active", lastChecked |-> t, lastInStock |-> Null,
    errorCount |-> 1, lastError |-> "unavailable", autoAddToCart |-> FALSE,
    history |-> <<>> ]

\* storage.js addProduct: TRUE when it throws
AddProductThrows(ps, s, product) ==
  \/ \E i \in 1..Len(ps) : ps[i].url = product.url
  \/ Len(ps) >= s.maxProducts

\* ADD_PRODUCT for url, whose page fetch has outcome res, with
\* crypto.randomUUID() returning id
AddProductWithId(id, url, res) ==
  /\ LET product == Merge(IF Classify(res) = "valid" THEN NewProduct(id, res, now)
                          ELSE DownProduct(id, now),
                          [url |-> url])
         ps == IF AddProductThrows(products, settings, product) THEN products
               ELSE Append(products, product)
     IN  /\ products' = ps
         /\ alarm' = IF ps = products THEN alarm
                     ELSE EnsureAlarmRunning(ps, settings, alarm, now)
         /\ obs' = [Started(Quiet, now) EXCEPT
                      !.last = [kind |-> "add", url |-> url, failed |-> ps = products],
                      !.streak = [i \in Ids(ps) |->
                                    IF i \in DOMAIN obs.streak THEN obs.streak[i]
                                    ELSE FromClean(ps, i)]]
  /\ UNCHANGED <<settings, isChecking, tick, chk, limiter, now>>

\* ADD_PRODUCT where the model takes the url as the new id
AddProduct(url, res) == AddProductWithId(url, url, res)

\* UPDATE_PRODUCT: updateProduct with the payload's updates, ensureAlarmRunning
UpdateProductMsg(id, updates) ==
  /\ HasProduct(products, id)
  /\ products' = UpdateProduct(products, id, updates)
  /\ alarm' = EnsureAlarmRunning(products', settings, alarm, now)
  /\ obs' = ObserveUser(products')
  /\ UNCHANGED <<settings, isChecking, tick, chk, limiter, now>>

\* UPDATE_SETTINGS with payload: merge, save, ensureAlarmRunning
UpdateSettings(payload) ==
  /\ settings' = Merge(settings, payload)
  /\ alarm' = EnsureAlarmRunning(products, settings', alarm, now)
  /\ obs' = Quiet
  /\ UNCHANGED <<products, isChecking, tick, chk, limiter, now>>

\* IMPORT_DATA with a backup that has products and settings
ImportData(data) ==
  /\ products' = data.products
  /\ settings' = Merge(DefaultSettings, data.settings)
  /\ alarm' = EnsureAlarmRunning(products', settings', alarm, now)
  /\ obs' = [Quiet EXCEPT
               !.streak = [id \in Ids(data.products) |-> FromClean(data.products, id)]]
  /\ UNCHANGED <<isChecking, tick, chk, limiter, now>>

PageOut == Data(GoodName, 2999, ImageUrl, "out_of_stock")
PageJunk == Data(JunkName, 0, "", "unknown")

Outcomes == {FetchThrows, PageJunk, PageOut}
FailModes == {"none", "log", "store"}
EngineStep == ERROR_FLOOR + RL_WINDOW

Init ==
  /\ now = Epoch
  /\ products = <<NewProduct(1, PageOut, Epoch), NewProduct(2, PageOut, Epoch)>>
  /\ settings = [DefaultSettings EXCEPT !.maxHistoryPerProduct = 2]
  /\ isChecking = FALSE
  /\ tick = [k \in TickIds |-> IdleTick]
  /\ chk = [c \in Callers |-> IdleCheck]
  /\ limiter = NewRateLimiter(RL_MAX, RL_WINDOW)
  /\ alarm = EnsureAlarmRunning(products, settings, NoAlarm, Epoch)
  /\ obs = NoObs(products, FALSE)

Next ==
  \/ \E k \in TickIds : OnAlarm(k)
  \/ \E k \in TickIds : TickLoad(k)
  \/ \E k \in TickIds : TickPauseDone(k)
  \/ \E k \in TickIds : TickClose(k)
  \/ \E k \in TickIds, res \in {FetchThrows, PageOut} : CheckReturns(k, res, "none")
  \/ \E id \in Ids(products) : ToggleMonitor(id)
  \/ StartAll
  \/ StopAll
  \/ Advance(EngineStep)

Spec == Init /\ [][Next]_vars

\* the invocations of monitorTick that are past the entry guard
Running == {k \in TickIds : tick[k].pc # "idle"}

\* C1: at most one invocation of monitorTick is in progress at any time, the
\* flag isChecking is set exactly while one is, only an invocation in
\* progress has a checkProduct call open, and an alarm that fires while a
\* tick is running leaves that tick running and opens no check of its own.
C1_SingleFlight ==
  /\ Cardinality(Running) <= 1
  /\ isChecking <=> Running # {}
  /\ \A k \in TickIds : chk[k].pc # "idle" <=> tick[k].pc = "check"
  /\ obs.last.kind = "dropped" => Cardinality(Running) = 1

\* an alarm fired and was dropped while a tick was waiting for its check
C1_Witness ==
  /\ obs.last.kind = "dropped"
  /\ \E k \in TickIds : tick[k].pc = "check"

----------------------------------------------------------------------------
(* The life cycle of one product under manual checks and the switches *)

InitLife ==
  /\ now = Epoch
  /\ products = <<NewProduct(1, PageOut, Epoch)>>
  /\ settings = [DefaultSettings EXCEPT !.maxHistoryPerProduct = 1]
  /\ isChecking = FALSE
  /\ tick = [k \in TickIds |-> IdleTick]
  /\ chk = [c \in Callers |-> IdleCheck]
  /\ limiter = NewRateLimiter(RL_MAX, RL_WINDOW)
  /\ alarm = EnsureAlarmRunning(products, settings, NoAlarm, Epoch)
  /\ obs = NoObs(products, FALSE)

NextLife ==
  \/ \E c \in NowIds, id \in Ids(products) : CheckNow(c, id)
  \/ \E c \in NowIds, res \in Outcomes : CheckReturns(c, res, "none")
  \/ \E id \in Ids(products) : ToggleMonitor(id)
  \/ StartAll
  \/ StopAll

SpecLife == InitLife /\ [][NextLife]_vars

\* C2: a product is in the error state exactly when its checks have failed
\* five or more times in a row, junk data and failed fetches alike, counted
\* from the last moment it was active with errorCount 0.
C2_ErrorIffFifthFailure ==
  \A id \in Ids(products) :
    obs.streak[id] # Null =>
      (GetProduct(products, id).monitorState = "error"
         <=> obs.streak[id] >= ERROR_THRESHOLD)

\* C4: a check, by a tick or by CHECK_NOW, of a product that is stored
\* paused, when the check starts and still when it completes, leaves it
\* paused.
C4_PausedStays ==
  Checked({"valid", "junk", "fetchfail"})
  /\ obs.last.seen = "paused" /\ obs.last.was = "paused" =>
    GetProduct(products, obs.last.id).monitorState = "paused"

----------------------------------------------------------------------------
(* The history of a product under checks and the handlers that write       *)
(* settings or products                                                    *)

HistCaps == 1..MaxHistCap

\* what EXPORT_DATA returned for the first product when it was added, under
\* each history cap
Backups ==
  { [products |-> <<NewProduct(1, PageOut, Epoch)>>,
     settings |-> [DefaultSettings EXCEPT !.maxHistoryPerProduct = n]] :
    n \in HistCaps }

InitHist ==
  /\ now = Epoch
  /\ products = <<NewProduct(1, PageOut, Epoch)>>
  /\ settings = [DefaultSettings EXCEPT !.maxHistoryPerProduct = MaxHistCap]
  /\ isChecking = FALSE
  /\ tick = [k \in TickIds |-> IdleTick]
  /\ chk = [c \in Callers |-> IdleCheck]
  /\ limiter = NewRateLimiter(RL_MAX, RL_WINDOW)
  /\ alarm = EnsureAlarmRunning(products, settings, NoAlarm, Epoch)
  /\ obs = NoObs(products, FALSE)

NextHist ==
  \/ \E id \in Ids(products) : CheckNow("now1", id)
  \/ CheckReturns("now1", PageOut, "none")
  \/ \E n \in HistCaps : UpdateSettings([maxHistoryPerProduct |-> n])
  \/ \E res \in {PageOut, PageJunk} : AddProduct(2, res)
  \/ \E data \in Backups : ImportData(data)

SpecHist == InitHist /\ [][NextHist]_vars

\* C5: the stored history of every product holds at most
\* maxHistoryPerProduct entries, in every state: after a check and after
\* UPDATE_SETTINGS, ADD_PRODUCT and IMPORT_DATA.
C5_HistoryWithinCap ==
  \A i \in 1..Len(products) :
    Len(products[i].history) <= settings.maxHistoryPerProduct

----------------------------------------------------------------------------
(* Transition detection: one product checked on request against pages      *)
(* that differ in price and stock status                                   *)

\* prices in cents; 0 is a page that shows no price
DetectPrices == {0, 2610, 2900, 2999}

DetectPages ==
  {Data(GoodName, price, ImageUrl, st) : price \in DetectPrices, st \in StockStatuses}

\* every alert switched on, and the settings of a fresh installation
AllOn ==
  [DefaultSettings EXCEPT !.maxHistoryPerProduct = 1, !.webhookEnabled = TRUE,
                          !.webhookUrl = "https://hook", !.globalAutoAdd = TRUE]

AllDefault == [DefaultSettings EXCEPT !.maxHistoryPerProduct = 1]

InitDetect ==
  /\ now = Epoch
  /\ products = <<NewProduct(1, PageOut, Epoch)>>
  /\ settings \in {AllOn, AllDefault}
  /\ isChecking = FALSE
  /\ tick = [k \in TickIds |-> IdleTick]
  /\ chk = [c \in Callers |-> IdleCheck]
  /\ limiter = NewRateLimiter(RL_MAX, RL_WINDOW)
  /\ alarm = EnsureAlarmRunning(products, settings, NoAlarm, Epoch)
  /\ obs = NoObs(products, FALSE)

NextDetect ==
  \/ \E id \in Ids(products) : CheckNow("now1", id)
  \/ \E res \in DetectPages : CheckReturns("now1", res, "none")
  \/ Advance(EngineStep)

SpecDetect == InitDetect /\ [][NextDetect]_vars

\* C6: a valid check emits Restocked (the in_stock log entry, and with it
\* the notification, the webhook and the add-to-cart that the settings
\* enable, and lastInStock = the time of the check) if and only if the new
\* status is in_stock and the old status is out_of_stock or unknown; never
\* when the old status is in_stock.
C6_Restocked ==
  Checked({"valid"}) =>
    LET l == obs.last
        q == GetProduct(products, l.id)
        back == l.d.stockStatus = "in_stock"
                /\ l.oldStatus \in {"out_of_stock", "unknown"}
    IN  /\ Emits("log:in_stock") <=> back
        /\ Emits("notify:in_stock") <=> back /\ settings.notificationsEnabled
        /\ Emits("webhook:in_stock") <=>
              back /\ settings.webhookEnabled /\ settings.webhookUrl # ""
        /\ Emits("add_to_cart") <=> back /\ (q.autoAddToCart \/ settings.globalAutoAdd)
        /\ back => q.lastInStock = l.t
        /\ ~back => q.lastInStock = l.oldLastInStock
        /\ l.oldStatus = "in_stock" => ~Emits("log:in_stock")

\* a product whose status was unknown is seen in stock, with every alert on
C6_Witness ==
  /\ Checked({"valid"})
  /\ obs.last.oldStatus = "unknown" /\ obs.last.d.stockStatus = "in_stock"
  /\ Emits("log:in_stock") /\ Emits("webhook:in_stock") /\ Emits("add_to_cart")

\* C7: a valid check emits PriceDrop if and only if the old and the new price
\* are both > 0, the new price is lower, and the decrease is at least
\* priceDropThreshold percent of the old price; every decrease sets
\* previousPrice to the old price; PriceDrop and Restocked are both emitted
\* by a check for which both conditions hold.
C7_PriceDrop ==
  Checked({"valid"}) =>
    LET l == obs.last
        q == GetProduct(products, l.id)
        lower == l.oldPrice > 0 /\ l.d.price > 0 /\ l.d.price < l.oldPrice
        enough == (l.oldPrice - l.d.price) * 100 >= l.threshold * l.oldPrice
        back == l.d.stockStatus = "in_stock"
                /\ l.oldStatus \in {"out_of_stock", "unknown"}
    IN  /\ Emits("log:price_change") <=> lower /\ enough
        /\ Emits("notify:price_drop") => lower /\ enough
        /\ Emits("webhook:price_drop") => lower /\ enough
        /\ lower => q.previousPrice = l.oldPrice
        /\ lower /\ enough /\ back => Emits("log:price_change") /\ Emits("log:in_stock")

----------------------------------------------------------------------------
(* The request rate: a tick over more products than the rate limiter lets  *)
(* through in one window, with checks on request and ADD_PRODUCT           *)

RateProducts == RL_MAX + 1

InitRate ==
  /\ now = Epoch
  /\ products = [i \in 1..RateProducts |-> NewProduct(i, PageOut, Epoch)]
  /\ settings = [DefaultSettings EXCEPT !.maxHistoryPerProduct = 1]
  /\ isChecking = FALSE
  /\ tick = [k \in TickIds |-> IdleTick]
  /\ chk = [c \in Callers |-> IdleCheck]
  /\ limiter = NewRateLimiter(RL_MAX, RL_WINDOW)
  /\ alarm = EnsureAlarmRunning(products, settings, NoAlarm, Epoch)
  /\ obs = NoObs(products, TRUE)

\* time passes while no tick is running or the tick sleeps in the rate limiter
\* (the checks and the pauses of this scenario take no time)
AdvanceAsleep(d) ==
  /\ \A k \in TickIds : tick[k].pc \in {"idle", "rlwait"}
  /\ Advance(d)

NextRate ==
  \/ \E k \in TickIds : OnAlarm(k)
  \/ \E k \in TickIds : TickLoad(k)
  \/ \E k \in TickIds : TickWake(k)
  \/ \E k \in TickIds : TickPauseDone(k)
  \/ \E k \in TickIds : TickClose(k)
  \/ \E c \in TickIds \cup {"now1"} : CheckReturns(c, PageOut, "none")
  \/ CheckNow("now1", 1)
  \/ AddProduct(RateProducts + 1, PageOut)
  \/ AdvanceAsleep(RL_WINDOW)

SpecRate == InitRate /\ [][NextRate]_vars

\* C8: at most RL_MAX = 20 product-page checks are started in any window of
\* RL_WINDOW = 60 s, counting the checks of the tick, of CHECK_NOW and of
\* ADD_PRODUCT.  (obs.starts holds the start times less than RL_WINDOW old.)
C8_RequestRate == Len(obs.starts) <= RL_MAX

----------------------------------------------------------------------------
(* The RateLimiter alone: record, canRequest and waitTime called at any    *)
(* time, on the limiter of the service worker and on one built with the    *)
(* defaults of the constructor                                             *)

DefaultRateLimiter == NewRateLimiter(10, 60000)

RlStep == RL_WINDOW \div 2

InitRL ==
  /\ now = Epoch
  /\ products = <<>>
  /\ settings = DefaultSettings
  /\ isChecking = FALSE
  /\ tick = [k \in TickIds |-> IdleTick]
  /\ chk = [c \in Callers |-> IdleCheck]
  /\ limiter \in {NewRateLimiter(RL_MAX, RL_WINDOW), DefaultRateLimiter}
  /\ alarm = NoAlarm
  /\ obs = NoObs(products, TRUE)

\* record(); obs.starts keeps the times of the calls less than RL_WINDOW old
RlRecord ==
  /\ Len(obs.starts) < MaxStarts
  /\ limiter' = Record(limiter, now)
  /\ obs' = [Started(obs, now) EXCEPT !.last = [kind |-> "record"]]
  /\ UNCHANGED <<products, settings, isChecking, tick, chk, alarm, now>>

\* canRequest()
RlCanRequest ==
  /\ limiter' = AfterCanRequest(limiter, now)
  /\ obs' = [obs EXCEPT !.last = [kind |-> "canRequest",
                                   result |-> CanRequest(limiter, now)]]
  /\ UNCHANGED <<products, settings, isChecking, tick, chk, alarm, now>>

\* waitTime(), which calls canRequest()
RlWaitTime ==
  /\ limiter' = AfterCanRequest(limiter, now)
  /\ obs' = [obs EXCEPT !.last = [kind |-> "waitTime",
                                   result |-> WaitTime(limiter, now)]]
  /\ UNCHANGED <<products, settings, isChecking, tick, chk, alarm, now>>

NextRL ==
  \/ RlRecord
  \/ RlCanRequest
  \/ RlWaitTime
  \/ Advance(RlStep)

SpecRL == InitRL /\ [][NextRL]_vars

\* the times of the record() calls that are less than windowMs old
Recent == SelectSeq(obs.starts, LAMBDA t : now - t < limiter.windowMs)

\* C9: canRequest() answers true exactly when fewer than maxRequests calls
\* of record() are less than windowMs old; waitTime() answers 0 when
\* canRequest() would answer true and otherwise the positive time until the
\* oldest of those calls is windowMs old; after RL_MAX = 20 calls of record()
\* within RL_WINDOW = 60000 ms the limiter of the service worker answers
\* false and a positive wait.
C9_RateLimiter ==
  /\ obs.last.kind = "canRequest" =>
        (obs.last.result <=> Len(Recent) < limiter.maxRequests)
  /\ obs.last.kind = "waitTime" =>
        IF Len(Recent) < limiter.maxRequests THEN obs.last.result = 0
        ELSE /\ obs.last.result > 0
             /\ obs.last.result = Recent[1] + limiter.windowMs - now
  /\ limiter.maxRequests = RL_MAX /\ limiter.windowMs = RL_WINDOW
      /\ Len(Recent) >= RL_MAX =>
        ~CanRequest(limiter, now) /\ WaitTime(limiter, now) > 0

\* the limiter of the service worker is asked for the wait after 20 calls of
\* record() in one window, some of them older than the others
C9_Witness ==
  /\ obs.last.kind = "waitTime" /\ obs.last.result > 0
  /\ limiter.maxRequests = RL_MAX /\ Len(Recent) >= RL_MAX
  /\ Recent[1] < now

----------------------------------------------------------------------------
(* The backoff gate: ticks over two products that fail, with checks on     *)
(* request in between                                                      *)

InitGate ==
  /\ now = Epoch
  /\ products = <<NewProduct(1, PageOut, Epoch), NewProduct(2, PageOut, Epoch)>>
  /\ settings = [DefaultSettings EXCEPT !.maxHistoryPerProduct = 1]
  /\ isChecking = FALSE
  /\ tick = [k \in TickIds |-> IdleTick]
  /\ chk = [c \in Callers |-> IdleCheck]
  /\ limiter = NewRateLimiter(RL_MAX, RL_WINDOW)
  /\ alarm = EnsureAlarmRunning(products, settings, NoAlarm, Epoch)
  /\ obs = NoObs(products, FALSE)

NextGate ==
  \/ \E k \in TickIds : OnAlarm(k)
  \/ \E k \in TickIds : TickLoad(k)
  \/ \E k \in TickIds : TickPauseDone(k)
  \/ \E k \in TickIds : TickClose(k)
  \/ \E k \in TickIds, res \in {FetchThrows, PageOut} : CheckReturns(k, res, "none")
  \/ CheckNow("now1", 2)
  \/ CheckReturns("now1", FetchThrows, "none")
  \/ Advance(EngineStep)

SpecGate == InitGate /\ [][NextGate]_vars

\* C3: after a check that obtained valid data the product has errorCount 0
\* and lastError null, and if it was stored in the error state, when the
\* check started and still when it completed, it is stored active.
C3_ValidCheckClears ==
  Checked({"valid"}) =>
    LET q == GetProduct(products, obs.last.id)
    IN  /\ q.errorCount = 0
        /\ q.lastError = "null"
        /\ obs.last.seen = "error" /\ obs.last.was = "error" => q.monitorState = "active"

\* C10: when a tick starts a check of a product whose errorCount is > 0, the
\* time since lastChecked is at least max(backoffDelay(errorCount), floor),
\* floor being ERROR_FLOOR = 5 minutes in state error and 0 otherwise (the
\* least value of backoffDelay is taken); and a product stored in state
\* error is not checked by a tick less than 5 minutes after its last check.
C10_BackoffGate ==
  obs.last.kind = "start" =>
    LET l == obs.last
    IN  /\ l.errorCount > 0 =>
              l.t - l.lastChecked >=
                Max(BackoffDelay(l.errorCount, 0 - 100),
                    IF l.state = "error" THEN ERROR_FLOOR ELSE 0)
        /\ l.was = "error" => l.t - l.wasChecked >= ERROR_FLOOR

----------------------------------------------------------------------------
(* The loop of the tick under failures: fetches that fail, junk pages,     *)
(* writes that the storage rejects, and products removed during the tick   *)

\* a product that failed ERROR_THRESHOLD checks in a row, the last at time t
FailedProduct(id, t) ==
  Merge(NewProduct(id, PageOut, t),
        [errorCount |-> ERROR_THRESHOLD, lastError |-> "thrown",
         monitorState |-> "error"])

\* less than ERROR_FLOOR, and more than it when taken twice
TickPace == ERROR_FLOOR - RL_WINDOW

InitTick ==
  /\ now = Epoch
  /\ products = <<FailedProduct(1, Epoch), NewProduct(2, PageOut, Epoch)>>
  /\ settings = [DefaultSettings EXCEPT !.maxHistoryPerProduct = 1]
  /\ isChecking = FALSE
  /\ tick = [k \in TickIds |-> IdleTick]
  /\ chk = [c \in Callers |-> IdleCheck]
  /\ limiter = NewRateLimiter(RL_MAX, RL_WINDOW)
  /\ alarm = EnsureAlarmRunning(products, settings, NoAlarm, Epoch)
  /\ obs = NoObs(products, FALSE)

NextTick ==
  \/ \E k \in TickIds : OnAlarm(k)
  \/ \E k \in TickIds : TickLoad(k)
  \/ \E k \in TickIds : TickPauseDone(k)
  \/ \E k \in TickIds : TickClose(k)
  \/ \E k \in TickIds, res \in Outcomes, failAt \in FailModes :
        CheckReturns(k, res, failAt)
  \/ \E id \in Ids(products) : RemoveProductMsg(id)
  \/ Advance(TickPace)

SpecTick == InitTick /\ [][NextTick]_vars

\* the products j of list e from index i up to, not including, index n are
\* ones the backoff gate skips at time t
SkippedFrom(e, i, n, t) ==
  \A j \in i..(n - 1) : \E r \in RandomPcts : ~Due(e[j], t, r)

\* one step of invocation k of the tick, from a to b: the list is the
\* eligible products as loaded and stays, the index only moves forward over
\* products that the gate skips or that were checked, a check is of the
\* product at the index, and the tick ends only behind the last product.
TickStep(k, a, b) ==
  /\ a.pc = "load" /\ b.pc # "load" =>
        IF Eligible(products) = <<>> THEN b.pc = "idle"
        ELSE /\ b.pc \in {"check", "rlwait", "closing"}
             /\ b.e = Eligible(products)
             /\ SkippedFrom(b.e, 1, b.i, now)
  /\ a.pc = "check" /\ b # a => b = [a EXCEPT !.pc = "pause"]
  /\ a.pc = "pause" /\ b # a =>
        /\ b.pc \in {"check", "rlwait", "closing"}
        /\ b.e = a.e /\ b.i > a.i
        /\ SkippedFrom(b.e, a.i + 1, b.i, now)
  /\ a.pc = "rlwait" /\ b # a =>
        /\ b.pc \in {"check", "rlwait", "closing"}
        /\ b.e = a.e /\ b.i >= a.i
        /\ SkippedFrom(b.e, a.i, b.i, now)
  /\ a.pc = "closing" /\ b # a => b.pc = "idle"
  /\ b.pc = "check" => b.i \in 1..Len(b.e) /\ chk'[k].p = b.e[b.i]
  /\ b.pc = "rlwait" => b.i \in 1..Len(b.e)
  /\ b.pc = "closing" => b.i = Len(b.e) + 1

\* C11: a failure while one product is processed (a failed fetch, junk data,
\* a store write that throws, a product removed during the tick) does not
\* end the tick: every product of the list the tick loaded is reached in
\* list order and is either checked or skipped by the backoff gate.
C11_TickReachesAll == [][\A k \in TickIds : TickStep(k, tick[k], tick'[k])]_vars

\* checkProduct threw to the tick, for a product that is no longer stored,
\* and the tick is in the pause before the products that are left
C11_Witness ==
  \E k \in TickIds :
    /\ tick[k].pc = "pause" /\ tick[k].i < Len(tick[k].e)
    /\ obs.last.kind \in {"valid", "junk", "fetchfail"}
    /\ obs.last.caller = k /\ obs.last.threw
    /\ ~HasProduct(products, tick[k].e[tick[k].i].id)

----------------------------------------------------------------------------
(* The end of a tick: every way out of monitorTick, under fair scheduling *)

\* the time step: the alarm period of the default settings
EndStep == AlarmPeriod(DefaultSettings)

\* the limiter after a tick that checked RL_MAX - 1 products one period ago
BusyLimiter ==
  [NewRateLimiter(RL_MAX, RL_WINDOW)
     EXCEPT !.timestamps = [i \in 1..(RL_MAX - 1) |-> Epoch - EndStep]]

\* two products of that tick are still stored and the alarm is due again
InitEnd ==
  /\ now = Epoch
  /\ products = <<NewProduct(1, PageOut, Epoch - EndStep),
                  NewProduct(2, PageOut, Epoch - EndStep)>>
  /\ settings = [DefaultSettings EXCEPT !.maxHistoryPerProduct = 1]
  /\ isChecking = FALSE
  /\ tick = [k \in TickIds |-> IdleTick]
  /\ chk = [c \in Callers |-> IdleCheck]
  /\ limiter = BusyLimiter
  /\ alarm = [armed |-> TRUE, period |-> AlarmPeriod(settings),
              scheduledTime |-> Epoch]
  /\ obs = NoObs(products, FALSE)

EndResults == {FetchThrows, PageOut}

\* the store accepts the writes of a check, or rejects them
EndFailModes == {"none", "store"}

NextEnd ==
  \/ \E k \in TickIds : OnAlarm(k)
  \/ \E k \in TickIds : TickLoad(k)
  \/ \E k \in TickIds : TickLoadThrows(k)
  \/ \E k \in TickIds : TickWake(k)
  \/ \E k \in TickIds : TickPauseDone(k)
  \/ \E k \in TickIds : TickClose(k)
  \/ \E k \in TickIds : TickCloseThrows(k)
  \/ \E k \in TickIds, res \in EndResults, failAt \in EndFailModes :
        CheckReturns(k, res, failAt)
  \/ StopAll
  \/ AdvanceWithin(EndStep, MaxEndClock)

\* Every await of monitorTick settles: the storage reads and the cleanup
\* resolve or reject, the sleeps are timers, waitForTabLoad gives up after
\* 20 s and chrome.tabs.sendMessage answers or rejects; and time passes.
FairEnd ==
  /\ \A k \in TickIds :
        /\ WF_vars(TickLoad(k) \/ TickLoadThrows(k))
        /\ WF_vars(TickWake(k))
        /\ WF_vars(TickPauseDone(k))
        /\ WF_vars(TickClose(k) \/ TickCloseThrows(k))
        /\ WF_vars(\E res \in EndResults, failAt \in EndFailModes :
                     CheckReturns(k, res, failAt))
  /\ WF_vars(AdvanceWithin(EndStep, MaxEndClock))

SpecEnd == InitEnd /\ [][NextEnd]_vars /\ FairEnd

\* C12: every tick that passed the entry guard eventually ends, and when it
\* has ended isChecking is false: after the loop, on the early return with
\* no eligible product, and when the loading or the cleanup throws; and
\* isChecking is never true while no tick is running.
C12_TickEnds ==
  /\ [](isChecking => \E k \in TickIds : tick[k].pc # "idle")
  /\ \A k \in TickIds :
        (tick[k].pc # "idle") ~> (tick[k].pc = "idle" /\ ~isChecking)

\* the cleanup at the end of a tick threw, and the flag is clear
C12_Witness ==
  /\ obs.last.kind = "tickthrew" /\ obs.last.at = "cleanup"
  /\ ~isChecking /\ \A k \in TickIds : tick[k].pc = "idle"

----------------------------------------------------------------------------
(* STOP_ALL while a tick is in progress *)

\* every stored product is paused, as STOP_ALL leaves the store
AllPaused(ps) == ps # <<>> /\ \A i \in 1..Len(ps) : ps[i].monitorState = "paused"

\* this step is invocation k of monitorTick calling checkProduct
StartsCheck(k) == tick[k].pc # "check" /\ tick'[k].pc = "check"

\* C13: once STOP_ALL has completed (every stored product is paused), no
\* tick in progress starts a check of a further product of its list.
C13_StopAllHaltsTick ==
  [][AllPaused(products) => \A k \in TickIds : ~StartsCheck(k)]_vars

----------------------------------------------------------------------------
(* storage.js under concurrent callers: updateProduct, addProduct and       *)
(* removeProduct read the whole list, change their copy and save it; the    *)
(* awaits between the read and the save let another caller run.             *)

StoreIds == 1..3

\* the callers explored: the check of a tick and one message handler
StoreCallers == {"tick1", "now1"}

\* the calls a caller makes: the write of a check by the tick; TOGGLE_MONITOR,
\* ADD_PRODUCT and REMOVE_PRODUCT by the handler
StoreCalls(c) ==
  IF c \in TickIds
  THEN {[op |-> "updateProduct", id |-> id,
         arg |-> [stockStatus |-> "in_stock", lastInStock |-> now]] : id \in 1..2}
  ELSE {[op |-> "updateProduct", id |-> id,
         arg |-> [monitorState |-> "paused", errorCount |-> 0, lastError |-> "null"]] :
          id \in 1..2}
       \cup {[op |-> "addProduct", id |-> 3, arg |-> NewProduct(3, PageOut, now)]}
       \cup {[op |-> "removeProduct", id |-> id, arg |-> Null] : id \in 2..3}

\* the call throws after reading list ps
StoreThrows(call, ps, s) ==
  CASE call.op = "updateProduct" -> ~HasProduct(ps, call.id)
    [] call.op = "addProduct" -> AddProductThrows(ps, s, call.arg)
    [] call.op = "removeProduct" -> FALSE

\* the list the call saves, from the list ps it read
Saved(call, ps) ==
  CASE call.op = "updateProduct" -> UpdateProduct(ps, call.id, call.arg)
    [] call.op = "addProduct" -> Append(ps, call.arg)
    [] call.op = "removeProduct" -> RemoveProduct(ps, call.id)

\* await getProducts() resolves in a call of caller c, which does not throw
StoreRead(c, call) ==
  /\ chk[c].pc = "idle"
  /\ ~StoreThrows(call, products, settings)
  /\ chk' = [chk EXCEPT ![c] = [pc |-> "save", call |-> call, list |-> products]]
  /\ UNCHANGED <<products, settings, isChecking, tick, limiter, alarm, now, obs>>

\* await saveProducts(products) takes effect and the call returns
StoreSave(c) ==
  /\ chk[c].pc = "save"
  /\ products' = Saved(chk[c].call, chk[c].list)
  /\ chk' = [chk EXCEPT ![c] = IdleCheck]
  /\ UNCHANGED <<settings, isChecking, tick, limiter, alarm, now, obs>>

InitStore ==
  /\ now = Epoch
  /\ products = <<NewProduct(1, PageOut, Epoch), NewProduct(2, PageOut, Epoch)>>
  /\ settings = DefaultSettings
  /\ isChecking = FALSE
  /\ tick = [k \in TickIds |-> IdleTick]
  /\ chk = [c \in Callers |-> IdleCheck]
  /\ limiter = NewRateLimiter(RL_MAX, RL_WINDOW)
  /\ alarm = EnsureAlarmRunning(products, settings, NoAlarm, Epoch)
  /\ obs = NoObs(products, FALSE)

NextStore ==
  \/ \E c \in StoreCallers : \E call \in StoreCalls(c) : StoreRead(c, call)
  \/ \E c \in StoreCallers : StoreSave(c)

SpecStore == InitStore /\ [][NextStore]_vars

\* C14: the save of an updateProduct call for product A leaves every other
\* product B as it is stored: it neither reverts an update of B, nor removes
\* a B that was added, nor restores a B that was removed, since the call
\* read the list.
C14_WritesKeepOthers ==
  [][\A c \in StoreCallers :
       (chk[c].pc = "save" /\ chk'[c].pc = "idle" /\ chk[c].call.op = "updateProduct")
       => \A b \in StoreIds \ {chk[c].call.id} :
             Stored(products', b) = Stored(products, b)]_vars

----------------------------------------------------------------------------
(* The urls of the stored products under the messages that write the list *)

UrlIds == 1..3
Urls == 1..2

\* the files imported: exports of a list of one and of two products, and a
\* file in which two entries have the same url
UrlBackups ==
  { [products |-> ps, settings |-> DefaultSettings] :
      ps \in { <<NewProduct(1, PageOut, Epoch)>>,
               <<NewProduct(1, PageOut, Epoch), NewProduct(2, PageOut, Epoch)>>,
               <<NewProduct(1, PageOut, Epoch),
                 Merge(NewProduct(2, PageOut, Epoch), [url |-> 1])>> } }

\* the updates UPDATE_PRODUCT is sent with
UrlUpdates == {[url |-> u] : u \in Urls} \cup {[autoAddToCart |-> TRUE]}

InitUrl ==
  /\ now = Epoch
  /\ products = <<NewProduct(1, PageOut, Epoch)>>
  /\ settings = DefaultSettings
  /\ isChecking = FALSE
  /\ tick = [k \in TickIds |-> IdleTick]
  /\ chk = [c \in Callers |-> IdleCheck]
  /\ limiter = NewRateLimiter(RL_MAX, RL_WINDOW)
  /\ alarm = EnsureAlarmRunning(products, settings, NoAlarm, Epoch)
  /\ obs = NoObs(products, FALSE)

NextUrl ==
  \/ \E id \in UrlIds \ Ids(products), url \in Urls, res \in {FetchThrows, PageOut} :
        AddProductWithId(id, url, res)
  \/ \E id \in UrlIds, u \in UrlUpdates : UpdateProductMsg(id, u)
  \/ \E id \in UrlIds : RemoveProductMsg(id)
  \/ \E data \in UrlBackups : ImportData(data)

SpecUrl == InitUrl /\ [][NextUrl]_vars

\* C15: no two stored products have the same url, and an ADD_PRODUCT for a
\* url that is already stored has failed and left the list as it was.
C15_UniqueUrls ==
  /\ \A i, j \in 1..Len(products) :
        i # j => products[i].url # products[j].url
  /\ (obs.last.kind = "add" /\ obs.last.failed)
       => \E i \in 1..Len(products) : products[i].url = obs.last.url

----------------------------------------------------------------------------
(* The alarm and the stored monitor states *)

\* no tick is in progress and no checkProduct call is open
AtRest ==
  /\ \A k \in TickIds : tick[k].pc = "idle"
  /\ \A c \in Callers : chk[c].pc = "idle"

\* C16: whenever no handler and no tick is in progress, the alarm is armed
\* exactly when some stored product is active or error.
C16_AlarmIffEligible == AtRest => (alarm.armed <=> Eligible(products) # <<>>)

----------------------------------------------------------------------------
(* UPDATE_SETTINGS handlers and the period of the alarm.  The handler      *)
(* awaits saveSettings and then, in ensureAlarmRunning, getSettings before  *)
(* it reads and creates the alarm; another handler can run in between.      *)

\* values of checkIntervalSeconds the settings page saves (10 to 600)
Intervals == {10, 30, 60}

\* getSettings, the merge with the payload and saveSettings
SettingsSave(h, payload) ==
  /\ chk[h].pc = "idle"
  /\ settings' = Merge(settings, payload)
  /\ chk' = [chk EXCEPT ![h] = [pc |-> "ensure"]]
  /\ UNCHANGED <<products, isChecking, tick, limiter, alarm, now, obs>>

\* ensureAlarmRunning: await getSettings() resolves
EnsureRead(h) ==
  /\ chk[h].pc = "ensure"
  /\ chk' = [chk EXCEPT ![h] = [pc |-> "arm", s |-> settings]]
  /\ UNCHANGED <<products, settings, isChecking, tick, limiter, alarm, now, obs>>

\* ensureAlarmRunning: getProducts, chrome.alarms.get and create or clear,
\* with the settings read before; the handler returns
EnsureArm(h) ==
  /\ chk[h].pc = "arm"
  /\ alarm' = EnsureAlarmRunning(products, chk[h].s, alarm, now)
  /\ chk' = [chk EXCEPT ![h] = IdleCheck]
  /\ UNCHANGED <<products, settings, isChecking, tick, limiter, now, obs>>

\* START_ALL and STOP_ALL while no other handler is in progress
AtRestDo(A) == (\A c \in Callers : chk[c].pc = "idle") /\ A

InitAlarm ==
  /\ now = Epoch
  /\ products = <<NewProduct(1, PageOut, Epoch)>>
  /\ settings = DefaultSettings
  /\ isChecking = FALSE
  /\ tick = [k \in TickIds |-> IdleTick]
  /\ chk = [c \in Callers |-> IdleCheck]
  /\ limiter = NewRateLimiter(RL_MAX, RL_WINDOW)
  /\ alarm = EnsureAlarmRunning(products, settings, NoAlarm, Epoch)
  /\ obs = NoObs(products, FALSE)

NextAlarm ==
  \/ \E h \in NowIds, n \in Intervals :
        SettingsSave(h, [checkIntervalSeconds |-> n])
  \/ \E h \in NowIds : EnsureRead(h)
  \/ \E h \in NowIds : EnsureArm(h)
  \/ AtRestDo(StartAll)
  \/ AtRestDo(StopAll)
  \/ AdvanceWithin(EndStep, MaxEndClock)

SpecAlarm == InitAlarm /\ [][NextAlarm]_vars

\* C17: whenever the alarm is armed and no handler is in progress, its
\* period is max(checkIntervalSeconds, 10) seconds of the stored settings.
C17_AlarmPeriod ==
  (AtRest /\ alarm.armed)
    => alarm.period = Max(settings.checkIntervalSeconds, 10) * 1000

----------------------------------------------------------------------------
(* triggerAddToCart: one run, called by the ADD_TO_CART message or by       *)
(* checkProduct on a restock.  obs keeps what the run did: the attempts, the *)
(* delays it slept and the log entries it appended.                          *)

CartCallers == {"now1"}

\* the page of the product, in stock
PageIn == Data(GoodName, 2999, ImageUrl, "in_stock")

\* ADD_CART_BASE_DELAY * Math.pow(2, attempt - 1)
CartDelay(attempt) == ADD_CART_BASE_DELAY * Pow2(attempt - 1)

\* what an attempt can come to: the content script reports success, reports
\* failure, a tab call throws, or addLog rejects after a reported success
CartOutcomes == {"success", "failure", "throws", "lognotsaved"}

NoRun == [last |-> NoCheck, attempts |-> 0, delays |-> <<>>, log |-> <<>>,
          ended |-> "no", inCheck |-> FALSE, added |-> 0]

\* obs.added: the attempts of the run to which the content script answered
\* success, having clicked the button
Reported(out) == IF out \in {"success", "lognotsaved"} THEN 1 ELSE 0

\* triggerAddToCart(product) is called: by the handler of ADD_TO_CART, or
\* (inCheck) by checkProduct, whose fetch returned PageIn, on a restock
CartStart(c, id, inCheck) ==
  /\ chk[c].pc = "idle" /\ HasProduct(products, id)
  /\ LET p == GetProduct(products, id)
     IN  /\ inCheck => Restocked(p, PageIn) /\ (p.autoAddToCart \/ settings.globalAutoAdd)
         /\ chk' = [chk EXCEPT ![c] = [pc |-> "attempt", attempt |-> 1, p |-> p,
                                       s |-> settings, t |-> now,
                                       inCheck |-> inCheck, wake |-> 0]]
  /\ obs' = [NoRun EXCEPT !.last = [kind |-> "cart"], !.inCheck = inCheck]
  /\ UNCHANGED <<products, settings, isChecking, tick, limiter, alarm, now>>

\* triggerAddToCart returns or throws to its caller; inside checkProduct the
\* rest of the try block follows, or the catch block, and a check of the
\* tick returns to the loop
CartEnd(c, threw) ==
  /\ chk' = [chk EXCEPT ![c] = IdleCheck]
  /\ products' =
       IF ~chk[c].inCheck THEN products
       ELSE IF threw
            THEN CatchBlock([ps |-> products, fx |-> <<>>, ok |-> FALSE],
                            chk[c].p, chk[c].s, chk[c].t, "none").ps
            ELSE CheckProduct(products, chk[c].p, chk[c].s, chk[c].t, PageIn, "none").ps
  /\ IF c \in TickIds
     THEN /\ limiter' = IF threw THEN limiter ELSE Record(limiter, now)
          /\ tick' = [tick EXCEPT ![c].pc = AfterCheck(threw)]
     ELSE UNCHANGED <<limiter, tick>>

\* one pass of the for loop up to its sleep
CartAttempt(c, out) ==
  /\ chk[c].pc = "attempt"
  /\ IF out = "success"
     THEN /\ obs' = [obs EXCEPT !.attempts = @ + 1, !.log = Append(@, "add_to_cart"),
                                !.ended = "success", !.added = @ + Reported(out)]
          /\ CartEnd(c, FALSE)
     ELSE IF chk[c].attempt < ADD_CART_MAX_RETRIES
          THEN /\ obs' = [obs EXCEPT !.attempts = @ + 1,
                                     !.delays = Append(@, CartDelay(chk[c].attempt)),
                                     !.added = @ + Reported(out)]
               /\ chk' = [chk EXCEPT ![c].pc = "sleep",
                                     ![c].wake = now + CartDelay(chk[c].attempt)]
               /\ UNCHANGED <<products, limiter, tick>>
          ELSE /\ obs' = [obs EXCEPT !.attempts = @ + 1, !.added = @ + Reported(out)]
               /\ chk' = [chk EXCEPT ![c].pc = "faillog"]
               /\ UNCHANGED <<products, limiter, tick>>
  /\ UNCHANGED <<settings, isChecking, alarm, now>>

\* the sleep between two attempts ends
CartWake(c) ==
  /\ chk[c].pc = "sleep" /\ now >= chk[c].wake
  /\ chk' = [chk EXCEPT ![c].pc = "attempt", ![c].attempt = @ + 1]
  /\ UNCHANGED <<products, settings, isChecking, tick, limiter, alarm, now, obs>>

\* after the loop: addLog of the failure, which the store accepts or rejects
CartFailLog(c, failAt) ==
  /\ chk[c].pc = "faillog"
  /\ obs' = IF CanLog(failAt)
            THEN [obs EXCEPT !.log = Append(@, "error"), !.ended = "failed"]
            ELSE [obs EXCEPT !.ended = "threw"]
  /\ CartEnd(c, ~CanLog(failAt))
  /\ UNCHANGED <<settings, isChecking, alarm, now>>

\* time passes
CartTime ==
  /\ (now - Epoch) \div ADD_CART_BASE_DELAY < MaxCartClock
  /\ now' = now + ADD_CART_BASE_DELAY
  /\ UNCHANGED <<products, settings, isChecking, tick, chk, limiter, alarm, obs>>

InitCart ==
  /\ now = Epoch
  /\ products = <<Merge(NewProduct(1, PageOut, Epoch), [autoAddToCart |-> TRUE])>>
  /\ settings = DefaultSettings
  /\ isChecking = FALSE
  /\ tick = [k \in TickIds |-> IdleTick]
  /\ chk = [c \in Callers |-> IdleCheck]
  /\ limiter = NewRateLimiter(RL_MAX, RL_WINDOW)
  /\ alarm = EnsureAlarmRunning(products, settings, NoAlarm, Epoch)
  /\ obs = NoRun

NextCart ==
  \/ \E c \in CartCallers, id \in Ids(products), inCheck \in BOOLEAN :
        CartStart(c, id, inCheck)
  \/ \E c \in CartCallers, out \in CartOutcomes : CartAttempt(c, out)
  \/ \E c \in CartCallers : CartWake(c)
  \/ \E c \in CartCallers, failAt \in {"none", "log"} : CartFailLog(c, failAt)
  \/ CartTime

SpecCart == InitCart /\ [][NextCart]_vars

\* C18: a run makes at most 3 attempts; its k-th delay is 3 s * 2^(k-1); and
\* a run in which every attempt failed has slept after each failed attempt
\* (3 s, 6 s, 12 s) and has appended exactly one log entry, the failure.
C18_CartRetries ==
  /\ obs.attempts <= ADD_CART_MAX_RETRIES
  /\ \A k \in 1..Len(obs.delays) : obs.delays[k] = CartDelay(k)
  /\ obs.ended = "failed"
       => /\ obs.delays = <<3000, 6000, 12000>>
          /\ obs.log = <<"error">>

\* C19: no step of a run of triggerAddToCart, the step that ends it inside
\* a check included, changes the stored monitorState or errorCount of the
\* product.
C19_CartKeepsState ==
  [][\A c \in CartCallers :
       chk[c].pc \in {"attempt", "sleep", "faillog"}
       => /\ Ids(products') = Ids(products)
          /\ \A id \in Ids(products) :
                /\ GetProduct(products', id).monitorState
                     = GetProduct(products, id).monitorState
                /\ GetProduct(products', id).errorCount
                     = GetProduct(products, id).errorCount]_vars

----------------------------------------------------------------------------
(* TOGGLE_MONITOR *)

\* C20: a toggle of a product that was active or error has left it paused,
\* and a toggle of a paused product has left it active with errorCount 0
\* and lastError null.
C20_Toggle ==
  obs.last.kind = "toggle" =>
    LET q == GetProduct(products, obs.last.id)
    IN  /\ obs.last.was \in {"active", "error"} => q.monitorState = "paused"
        /\ obs.last.was = "paused"
             => q.monitorState = "active" /\ q.errorCount = 0 /\ q.lastError = "null"

----------------------------------------------------------------------------
(* Resets of errorCount *)

\* C21: the stored errorCount of a product goes from a positive value to 0
\* only in the step that completes a check of that product whose data was
\* classified valid.
C21_ResetOnlyByValidCheck ==
  [][\A id \in Ids(products) \cap Ids(products') :
       (GetProduct(products, id).errorCount > 0
          /\ GetProduct(products', id).errorCount = 0)
       => (obs'.last.kind = "valid" /\ obs'.last.id = id)]_vars

----------------------------------------------------------------------------
(* SoldOut *)

\* C22: a valid check that finds the product going from in_stock to
\* out_of_stock delivers the event to the notifier when notifications are
\* enabled and to the webhook when the webhook is enabled and has a url.
C22_SoldOutDelivered ==
  (Checked({"valid"}) /\ obs.last.oldStatus = "in_stock"
     /\ obs.last.d.stockStatus = "out_of_stock")
  => /\ settings.notificationsEnabled => Emits("notify:out_of_stock")
     /\ WebhookOn(settings) => Emits("webhook:out_of_stock")

----------------------------------------------------------------------------
(* The order of the store write and the dispatch in a valid check *)

\* the effects handed to the notifier, the audio alert, the webhook and the
\* add-to-cart
Dispatches ==
  {"notify:in_stock", "notify:price_drop", "audio", "webhook:in_stock",
   "webhook:price_drop", "add_to_cart"}

\* C23: in a valid check every notification, webhook and add-to-cart comes
\* after the write of the product's updates to the store.
C23_PersistBeforeDispatch ==
  Checked({"valid"}) =>
    \A i \in 1..Len(obs.last.fx) :
      obs.last.fx[i] \in Dispatches
        => \E j \in 1..(i - 1) : obs.last.fx[j] = "update"

----------------------------------------------------------------------------
(* The add-to-cart run of a check inside a tick *)

WhileCartRunsDetached(pc) == "pause"

\* await triggerAddToCart(product) in checkProduct, itself awaited by the
\* loop of monitorTick: the position of the tick while the run goes on
WhileCartRuns(pc) == pc

\* the fetch of the tick's check returned PageIn, the check found a restock
\* of a product with add-to-cart on, and calls triggerAddToCart
TickCartStart(k) ==
  /\ chk[k].pc = "fetch"
  /\ Restocked(chk[k].p, PageIn)
  /\ chk[k].p.autoAddToCart \/ chk[k].s.globalAutoAdd
  /\ chk' = [chk EXCEPT ![k] = [pc |-> "attempt", attempt |-> 1, p |-> chk[k].p,
                                 s |-> chk[k].s, t |-> chk[k].t,
                                 inCheck |-> TRUE, wake |-> 0]]
  /\ tick' = [tick EXCEPT ![k].pc = WhileCartRuns(@)]
  /\ obs' = [obs EXCEPT !.last = [kind |-> "cart", id |-> chk[k].p.id],
                        !.attempts = 0, !.delays = <<>>, !.added = 0,
                        !.log = <<>>, !.ended = "no", !.inCheck = TRUE]
  /\ UNCHANGED <<products, settings, isChecking, limiter, alarm, now>>

\* product 1 has add-to-cart on; the alarm is due
InitOrder ==
  /\ now = Epoch
  /\ products = <<Merge(NewProduct(1, PageOut, Epoch), [autoAddToCart |-> TRUE]),
                  NewProduct(2, PageOut, Epoch)>>
  /\ settings = [DefaultSettings EXCEPT !.maxHistoryPerProduct = 1]
  /\ isChecking = FALSE
  /\ tick = [k \in TickIds |-> IdleTick]
  /\ chk = [c \in Callers |-> IdleCheck]
  /\ limiter = NewRateLimiter(RL_MAX, RL_WINDOW)
  /\ alarm = [armed |-> TRUE, period |-> AlarmPeriod(settings),
              scheduledTime |-> Epoch]
  /\ obs = NoObs(products, FALSE) @@ NoRun

NextOrder ==
  \/ \E k \in TickIds : OnAlarm(k)
  \/ \E k \in TickIds : TickLoad(k)
  \/ \E k \in TickIds : TickPauseDone(k)
  \/ \E k \in TickIds : TickClose(k)
  \/ \E k \in TickIds, res \in {FetchThrows, PageOut} : CheckReturns(k, res, "none")
  \/ \E k \in TickIds : TickCartStart(k)
  \/ \E k \in TickIds, out \in CartOutcomes : CartAttempt(k, out)
  \/ \E k \in TickIds : CartWake(k)
  \/ \E k \in TickIds, failAt \in {"none", "log"} : CartFailLog(k, failAt)
  \/ CartTime

SpecOrder == InitOrder /\ [][NextOrder]_vars

\* C24: when a tick calls checkProduct for a product, no check and no
\* add-to-cart run of an earlier product of the tick is still open: the run
\* that was started has ended, with its log entry written or its throw caught.
C24_EffectsBeforeNext ==
  [][\A k \in TickIds :
       StartsCheck(k) => /\ chk[k].pc = "idle"
                         /\ obs.attempts > 0 => obs.ended # "no"]_vars

\* the tick checks its second product after an add-to-cart run for the first
\* that used all three attempts
C24_Witness ==
  \E k \in TickIds :
    /\ tick[k].pc = "check" /\ tick[k].i = 2
    /\ obs.attempts = ADD_CART_MAX_RETRIES /\ obs.ended = "failed"
    /\ obs.delays = <<3000, 6000>>

----------------------------------------------------------------------------
(* The sleep of the rate-limit gate *)

\* the tick of invocation k enters the sleep of the rate-limit gate
Denied(k) == tick[k].pc # "rlwait" /\ tick'[k].pc = "rlwait"

\* the tick of invocation k leaves the sleep of the rate-limit gate
Woken(k) == tick[k].pc = "rlwait" /\ tick'[k].pc # "rlwait"

\* the tick over RateProducts products, with checks on request in between
NextWait ==
  \/ \E k \in TickIds : OnAlarm(k)
  \/ \E k \in TickIds : TickLoad(k)
  \/ \E k \in TickIds : TickWake(k)
  \/ \E k \in TickIds : TickPauseDone(k)
  \/ \E k \in TickIds : TickClose(k)
  \/ \E c \in TickIds \cup {"now1"} : CheckReturns(c, PageOut, "none")
  \/ CheckNow("now1", 1)
  \/ AdvanceAsleep(RL_WINDOW)

SpecWait == InitRate /\ [][NextWait]_vars

\* C25: a tick that the rate limiter denies sleeps until waitTime() has passed,
\* and then calls checkProduct for the product it was denied for, in the same
\* tick (the products of this scenario have errorCount 0, so the backoff gate
\* lets every one of them through).
C25_DeniedThenSameProduct ==
  [][\A k \in TickIds :
       /\ Denied(k) =>
            /\ ~CanRequest(limiter, now)
            /\ tick'[k].wake = now + WaitTime(limiter, now)
       /\ Woken(k) =>
            /\ now >= tick[k].wake
            /\ tick'[k].pc = "check" /\ tick'[k].i = tick[k].i
            /\ tick'[k].e = tick[k].e
            /\ chk'[k].pc = "fetch" /\ chk'[k].p = tick[k].e[tick[k].i]]_vars

\* the tick checks the product after RL_MAX others, all recorded a full window
\* ago or longer: it was denied, slept, and went on with that product
C25_Witness ==
  \E k \in TickIds :
    /\ tick[k].pc = "check" /\ tick[k].i = RateProducts
    /\ chk[k].p.id = RateProducts
    /\ Len(limiter.timestamps) >= RL_MAX
    /\ \A j \in 1..Len(limiter.timestamps) : now - limiter.timestamps[j] >= RL_WINDOW

----------------------------------------------------------------------------
(* backoffDelay alone, called with any errorCount and any draw *)

MaxBackoffCount == 10

\* (Math.random() * 2 - 1) * 100 in steps of five percent, and the largest
\* whole percent: Math.random() is in [0, 1)
JitterDraws == {5 * j : j \in (0 - 20)..19} \cup {99}

InitBackoff ==
  /\ now = Epoch
  /\ products = <<>>
  /\ settings = DefaultSettings
  /\ isChecking = FALSE
  /\ tick = [k \in TickIds |-> IdleTick]
  /\ chk = [c \in Callers |-> IdleCheck]
  /\ limiter = NewRateLimiter(RL_MAX, RL_WINDOW)
  /\ alarm = NoAlarm
  /\ obs = [kind |-> "none"]

\* backoffDelay(errorCount) with the draw r; the delay before jitter for
\* errorCount and for errorCount + 1 is kept beside the result
BackoffCall(errorCount, r) ==
  /\ obs' = [kind |-> "backoffDelay", errorCount |-> errorCount, r |-> r,
             before |-> BackoffBeforeJitter(errorCount),
             beforeNext |-> BackoffBeforeJitter(errorCount + 1),
             result |-> BackoffDelay(errorCount, r)]
  /\ UNCHANGED <<products, settings, isChecking, tick, chk, limiter, alarm, now>>

NextBackoff ==
  \E errorCount \in 0..MaxBackoffCount, r \in JitterDraws : BackoffCall(errorCount, r)

SpecBackoff == InitBackoff /\ [][NextBackoff]_vars

\* C26: for every errorCount and every draw of the jitter, backoffDelay is at
\* most the cap of 300000 ms, and the delay before jitter does not decrease
\* when errorCount grows by one.
C26_BackoffWithinCap ==
  obs.kind = "backoffDelay" =>
    /\ obs.result <= BACKOFF_CAP
    /\ obs.before <= obs.beforeNext

----------------------------------------------------------------------------
(* IMPORT_DATA with any bundle.  A bundle is the payload of the message:   *)
(* payload is FALSE when the message has none, present are the fields the  *)
(* bundle has, version is "" for a version that is there but empty.        *)
(* obs.profiles is what the storage holds under KEYS.PROFILES.             *)

BundleFields == {"version", "products", "settings", "profiles"}

\* !data.f is false
Truthy(data, f) == f \in data.present /\ (f = "version" => data.version # "")

ImportThrowsNoProducts(data) == ~data.payload \/ ~Truthy(data, "products")

\* if (!data.version || !data.products) throw new Error(...); reading
\* data.version of a payload that is not there throws as well
ImportThrows(data) ==
  ~data.payload \/ ~Truthy(data, "version") \/ ~Truthy(data, "products")

\* the listener of chrome.runtime.onMessage: sendResponse with what
\* handleMessage returned, or with its error
Response(threw) ==
  IF threw THEN [success |-> FALSE, error |-> "Invalid import data format."]
  ELSE [success |-> TRUE, error |-> ""]

\* handleMessage IMPORT_DATA: importAll, ensureAlarmRunning, refreshBadge
ImportMsg(data) ==
  /\ IF ImportThrows(data)
     THEN /\ UNCHANGED <<products, settings, alarm>>
          /\ obs' = [obs EXCEPT !.last = [kind |-> "import", data |-> data,
                                          response |-> Response(TRUE)]]
     ELSE /\ products' = data.products
          /\ settings' = IF Truthy(data, "settings")
                         THEN Merge(DefaultSettings, data.settings) ELSE settings
          /\ alarm' = EnsureAlarmRunning(products', settings', alarm, now)
          /\ obs' = [obs EXCEPT
                       !.last = [kind |-> "import", data |-> data,
                                 response |-> Response(FALSE)],
                       !.streak = [id \in Ids(data.products) |->
                                     FromClean(data.products, id)],
                       !.profiles = IF Truthy(data, "profiles")
                                    THEN data.profiles ELSE @]
  /\ UNCHANGED <<isChecking, tick, chk, limiter, now>>

\* the bundles sent: any set of fields, of a backup that differs from what
\* is stored, and a message without payload
Bundles ==
  { [payload |-> TRUE, present |-> fs, version |-> v,
     products |-> <<NewProduct(2, PageOut, Epoch)>>,
     settings |-> [checkIntervalSeconds |-> 60],
     profiles |-> <<"work">>] : fs \in SUBSET BundleFields, v \in {"", "1.0.0"} }
  \cup
  { [payload |-> FALSE, present |-> {}, version |-> "", products |-> <<>>,
     settings |-> EmptyRec, profiles |-> <<>>] }

InitImport ==
  /\ now = Epoch
  /\ products = <<NewProduct(1, PageOut, Epoch)>>
  /\ settings = DefaultSettings
  /\ isChecking = FALSE
  /\ tick = [k \in TickIds |-> IdleTick]
  /\ chk = [c \in Callers |-> IdleCheck]
  /\ limiter = NewRateLimiter(RL_MAX, RL_WINDOW)
  /\ alarm = EnsureAlarmRunning(products, settings, NoAlarm, Epoch)
  /\ obs = NoObs(products, FALSE) @@ [profiles |-> <<"home">>]

NextImport ==
  \/ \E data \in Bundles : ImportMsg(data)
  \/ \E id \in 1..2 : ToggleMonitor(id)
  \/ \E n \in Intervals : UpdateSettings([checkIntervalSeconds |-> n])

SpecImport == InitImport /\ [][NextImport]_vars

\* the bundle lacks a version or products
Lacks(data) == ~Truthy(data, "version") \/ ~Truthy(data, "products")

\* C27: IMPORT_DATA with a bundle that lacks version or products is answered
\* with an error response, and the stored products, settings and profiles
\* (and the alarm) are what they were before the message.
C27_BadImportChangesNothing ==
  [][(obs'.last.kind = "import" /\ Lacks(obs'.last.data)) =>
       /\ ~obs'.last.response.success /\ obs'.last.response.error # ""
       /\ products' = products /\ settings' = settings
       /\ obs'.profiles = obs.profiles /\ alarm' = alarm]_vars

\* a bundle with products, settings and profiles that differ from the stored
\* ones but with no version was answered with an error
C27_Witness ==
  /\ obs.last.kind = "import" /\ ~obs.last.response.success
  /\ obs.last.data.present = BundleFields \ {"version"}
  /\ products # obs.last.data.products
  /\ obs.profiles # obs.last.data.profiles
  /\ settings.checkIntervalSeconds # obs.last.data.settings.checkIntervalSeconds

----------------------------------------------------------------------------
(* The validity classifier alone, in its two copies, on any snapshot *)

\* the names of the snapshots: none, short ones, product titles, titles with
\* a junk phrase of either list, and sentences
SnapshotNames ==
  { <<>>, <<"x">>, <<"tv">>, <<"set">>, GoodName, JunkName,
    <<"lego", "error">>, <<"kmart", "australia">>, <<"lego", "unavailable">>,
    <<"the", "lego", "set", "for", "your", "kids">>,
    <<"the", "lego", "set", "for", "kids", "toys">>,
    <<"the", "set", "for", "your", "kids">> }

Snapshots ==
  { Data(n, pr, img, "in_stock") :
      n \in SnapshotNames, pr \in {0, 2999}, img \in {"", "x.png", ImageUrl} }

Classifiers == {"options.js", "service-worker.js"}

InitClassify ==
  /\ now = Epoch
  /\ products = <<>>
  /\ settings = DefaultSettings
  /\ isChecking = FALSE
  /\ tick = [k \in TickIds |-> IdleTick]
  /\ chk = [c \in Callers |-> IdleCheck]
  /\ limiter = NewRateLimiter(RL_MAX, RL_WINDOW)
  /\ alarm = NoAlarm
  /\ obs = [kind |-> "none"]

\* isValidProductData(d) of the file named
ClassifierCall(d, file) ==
  /\ obs' = [kind |-> "classified", d |-> d, file |-> file,
             valid |-> IF file = "options.js" THEN IsValidProductData(d)
                       ELSE IsValidProductDataWorker(d)]
  /\ UNCHANGED <<products, settings, isChecking, tick, chk, limiter, alarm, now>>

NextClassify == \E d \in Snapshots, file \in Classifiers : ClassifierCall(d, file)

SpecClassify == InitClassify /\ [][NextClassify]_vars

\* the four rules of rejection
NoName(d) == d.name = <<>> \/ CharLen(d.name) < 3
JunkPhrase(d) == \E j \in JunkPhrases : Contains(d.name, j)
NoPriceNoImage(d) == ~(d.price > 0) /\ ~(UrlLen(d.imageUrl) > 10)
Sentence(d) == Len(d.name) >= 6 /\ FillerCount(d.name) >= 3

\* C28: the classifier rejects a snapshot exactly when the name is missing or
\* shorter than 3 characters, or the name contains a junk phrase, or there is
\* neither a price above 0 nor an image reference longer than 10 characters,
\* or the name has 6 or more words with 3 or more filler words; and it
\* rejects {name: 'Just a moment...', price: 0, imageUrl: ''}.
C28_ClassifierRules ==
  obs.kind = "classified" =>
    /\ ~obs.valid <=> (NoName(obs.d) \/ JunkPhrase(obs.d)
                         \/ NoPriceNoImage(obs.d) \/ Sentence(obs.d))
    /\ (obs.d.name = JunkName /\ obs.d.price = 0 /\ obs.d.imageUrl = "") => ~obs.valid

----------------------------------------------------------------------------
(* The notification of the error threshold *)

\* C29: in a run of failed checks of a product, counted from the last moment
\* it was active with errorCount 0, the error-threshold notification is issued
\* by the failure that is the fifth of the run, and by no other failure of
\* the run (notifications being enabled).
C29_ThresholdNoticeOnce ==
  (Checked({"junk", "fetchfail"}) /\ obs.streak[obs.last.id] # Null
     /\ settings.notificationsEnabled)
  => (Emits("notify:error") <=> obs.streak[obs.last.id] = ERROR_THRESHOLD)

----------------------------------------------------------------------------
(* The shared monitor tab: ticks over two products, with checks on request *)
(* and STOP_ALL                                                            *)

\* getMonitorTab during the fetch of caller c, no monitor tab being known:
\* chrome.tabs.create, monitorTabId = tab.id
GetMonitorTab(c) ==
  /\ chk[c].pc = "fetch"
  /\ obs.monitorTabId = 0
  /\ obs' = [obs EXCEPT !.monitorTabId = 1]
  /\ UNCHANGED <<products, settings, isChecking, tick, chk, limiter, alarm, now>>

InitTab ==
  /\ now = Epoch
  /\ products = <<NewProduct(1, PageOut, Epoch), NewProduct(2, PageOut, Epoch)>>
  /\ settings = [DefaultSettings EXCEPT !.maxHistoryPerProduct = 1]
  /\ isChecking = FALSE
  /\ tick = [k \in TickIds |-> IdleTick]
  /\ chk = [c \in Callers |-> IdleCheck]
  /\ limiter = NewRateLimiter(RL_MAX, RL_WINDOW)
  /\ alarm = EnsureAlarmRunning(products, settings, NoAlarm, Epoch)
  /\ obs = NoObs(products, FALSE) @@ [monitorTabId |-> 0]

NextTab ==
  \/ \E k \in TickIds : OnAlarm(k)
  \/ \E k \in TickIds : TickLoad(k)
  \/ \E k \in TickIds : TickPauseDone(k)
  \/ \E k \in TickIds : TickClose(k)
  \/ \E c \in TickIds \cup {"now1"} : GetMonitorTab(c)
  \/ \E k \in TickIds, res \in {FetchThrows, PageOut} : CheckReturns(k, res, "none")
  \/ CheckReturns("now1", PageOut, "none")
  \/ CheckNow("now1", 1)
  \/ StopAll
  \/ AdvanceWithin(EngineStep, MaxEndClock)

SpecTab == InitTab /\ [][NextTab]_vars

\* the tick of invocation k ends
TickEnds(k) == tick[k].pc # "idle" /\ tick'[k].pc = "idle"

\* C30: when a tick ends, the monitor tab has been closed and monitorTabId is
\* null.
C30_TabClosedAtTickEnd ==
  [][\A k \in TickIds : TickEnds(k) => obs'.monitorTabId = 0]_vars

----------------------------------------------------------------------------
(* The monitor tab under overlapping fetches: fetchProductViaTab in its    *)
(* two steps, the navigation of getMonitorTab and the parse request.       *)
(* obs.tabUrl is the url the monitor tab was last navigated to.            *)

\* what the content script parses from the page of url
PageAt(url) == Data(GoodName, 1999 + 1000 * url, ImageUrl, "out_of_stock")

\* getMonitorTab(url) for the check of caller c: chrome.tabs.update of the
\* known tab, or chrome.tabs.create; then waitForTabLoad and sleep(2000)
TabNavigate(c) ==
  /\ chk[c].pc = "fetch"
  /\ chk' = [chk EXCEPT ![c].pc = "loaded"]
  /\ obs' = [obs EXCEPT !.last = NoCheck, !.monitorTabId = 1,
                        !.tabUrl = chk[c].p.url]
  /\ UNCHANGED <<products, settings, isChecking, tick, limiter, alarm, now>>

\* chrome.tabs.sendMessage(tabId, PARSE_PRODUCT_PAGE): the content script
\* answers with the page the tab shows now, or the message fails because the
\* tab was closed; checkProduct then runs to its end
TabParse(c) ==
  /\ chk[c].pc = "loaded"
  /\ LET res == IF obs.monitorTabId = 0 THEN FetchThrows ELSE PageAt(obs.tabUrl)
     IN  Returned(c, res, "none",
                  CheckProduct(products, chk[c].p, chk[c].s, chk[c].t, res, "none"))
  /\ chk' = [chk EXCEPT ![c] = IdleCheck]
  /\ UNCHANGED <<settings, isChecking, alarm, now>>

InitShare ==
  /\ now = Epoch
  /\ products = <<NewProduct(1, PageAt(1), Epoch), NewProduct(2, PageAt(2), Epoch)>>
  /\ settings = [DefaultSettings EXCEPT !.maxHistoryPerProduct = 1]
  /\ isChecking = FALSE
  /\ tick = [k \in TickIds |-> IdleTick]
  /\ chk = [c \in Callers |-> IdleCheck]
  /\ limiter = NewRateLimiter(RL_MAX, RL_WINDOW)
  /\ alarm = [armed |-> TRUE, period |-> AlarmPeriod(settings),
              scheduledTime |-> Epoch]
  /\ obs = NoObs(products, FALSE) @@ [monitorTabId |-> 0, tabUrl |-> 0]

NextShare ==
  \/ \E k \in TickIds : OnAlarm(k)
  \/ \E k \in TickIds : TickLoad(k)
  \/ \E k \in TickIds : TickPauseDone(k)
  \/ \E k \in TickIds : TickClose(k)
  \/ \E c \in TickIds \cup {"now1"} : TabNavigate(c)
  \/ \E c \in TickIds \cup {"now1"} : TabParse(c)
  \/ CheckNow("now1", 2)
  \/ AdvanceWithin(EngineStep, MaxEndClock)

SpecShare == InitShare /\ [][NextShare]_vars

\* C31: the data a completed check worked on was parsed from the page of the
\* checked product's own url, also when a check on request runs while a tick
\* is fetching.
C31_OwnPage ==
  Checked({"valid"}) => obs.last.d = PageAt(GetProduct(products, obs.last.id).url)

----------------------------------------------------------------------------
(* What a failed check writes *)

\* the number of entries e among the effects fx
CountFx(fx, e) == Cardinality({i \in 1..Len(fx) : fx[i] = e})

\* C32: a check that ends as a fetch failure or as a junk classification
\* leaves the stored product with errorCount one higher, lastError and
\* lastChecked set, one error log entry, and currentPrice, previousPrice,
\* stockStatus, imageUrl, lastInStock and history as they were; the name
\* changes only on a junk response when the stored record fails the classifier.
C32_FailureFrame ==
  [][\A id \in Ids(products) \cap Ids(products') :
       (obs'.last.kind \in {"junk", "fetchfail"} /\ obs'.last.id = id
          /\ \E c \in Callers : chk[c].pc = "fetch" /\ chk'[c].pc = "idle")
       => LET p == GetProduct(products, id)
              q == GetProduct(products', id)
          IN  /\ q.errorCount = p.errorCount + 1
              /\ q.lastChecked = obs'.last.t /\ q.lastError # "null"
              /\ CountFx(obs'.last.fx, "log:error") = 1
              /\ q.currentPrice = p.currentPrice /\ q.previousPrice = p.previousPrice
              /\ q.stockStatus = p.stockStatus /\ q.imageUrl = p.imageUrl
              /\ q.lastInStock = p.lastInStock /\ q.history = p.history
              /\ q.name # p.name =>
                   /\ obs'.last.kind = "junk"
                   /\ ~IsValidProductData([name |-> p.name, price |-> p.currentPrice,
                                           imageUrl |-> p.imageUrl])]_vars

----------------------------------------------------------------------------
(* The error state and errorCount *)

\* C33: every stored product in the error state has errorCount 5 or more,
\* whatever checks, TOGGLE_MONITOR, START_ALL and STOP_ALL did before.
C33_ErrorHasCount ==
  \A i \in 1..Len(products) :
    products[i].monitorState = "error" => products[i].errorCount >= ERROR_THRESHOLD

----------------------------------------------------------------------------
(* Removed products *)

\* C34: a product that is not stored only comes to be stored through an
\* addProduct call for it: no write of an update or of a check that was in
\* flight during its removal puts a removed product back.
C34_RemovedStaysRemoved ==
  [][\A b \in StoreIds :
       (~HasProduct(products, b) /\ HasProduct(products', b))
       => \E c \in StoreCallers :
             /\ chk[c].pc = "save" /\ chk'[c].pc = "idle"
             /\ chk[c].call.op = "addProduct" /\ chk[c].call.id = b]_vars

----------------------------------------------------------------------------
(* One restock of a page, seen by the tick and by checks on request: the   *)
(* product is stored out_of_stock, its page shows in_stock from now on     *)

InitOnce ==
  /\ now = Epoch
  /\ products = <<NewProduct(1, PageOut, Epoch)>>
  /\ settings = AllOn
  /\ isChecking = FALSE
  /\ tick = [k \in TickIds |-> IdleTick]
  /\ chk = [c \in Callers |-> IdleCheck]
  /\ limiter = NewRateLimiter(RL_MAX, RL_WINDOW)
  /\ alarm = [armed |-> TRUE, period |-> AlarmPeriod(settings),
              scheduledTime |-> Epoch]
  /\ obs = NoObs(products, FALSE) @@ [restocks |-> 0]

NextOnce ==
  \/ \E k \in TickIds : OnAlarm(k)
  \/ \E k \in TickIds : TickLoad(k)
  \/ \E k \in TickIds : TickPauseDone(k)
  \/ \E k \in TickIds : TickClose(k)
  \/ CheckNow("now1", 1)
  \/ \E c \in TickIds \cup {"now1"}, failAt \in {"none", "store"} :
        CheckReturns(c, PageIn, failAt)
  \/ AdvanceWithin(EngineStep, MaxEndClock)

SpecOnce == InitOnce /\ [][NextOnce]_vars

\* C35: for the one change of the page to in_stock, at most one check
\* dispatches the restock alerts (notification, webhook, add-to-cart).
C35_RestockOnce == obs.restocks <= 1

----------------------------------------------------------------------------
(* What starts the add-to-cart automation: checks of one product with any  *)
(* outcome, while the user switches its autoAddToCart flag                 *)

AutoPages ==
  {Data(GoodName, price, ImageUrl, st) : price \in {2610, 2999}, st \in StockStatuses}
  \cup {PageJunk, FetchThrows}

InitAuto ==
  /\ now = Epoch
  /\ products = <<NewProduct(1, PageOut, Epoch)>>
  /\ settings \in {AllOn, AllDefault}
  /\ isChecking = FALSE
  /\ tick = [k \in TickIds |-> IdleTick]
  /\ chk = [c \in Callers |-> IdleCheck]
  /\ limiter = NewRateLimiter(RL_MAX, RL_WINDOW)
  /\ alarm = EnsureAlarmRunning(products, settings, NoAlarm, Epoch)
  /\ obs = NoObs(products, FALSE)

NextAuto ==
  \/ CheckNow("now1", 1)
  \/ \E res \in AutoPages : CheckReturns("now1", res, "none")
  \/ \E b \in BOOLEAN : UpdateProductMsg(1, [autoAddToCart |-> b])

SpecAuto == InitAuto /\ [][NextAuto]_vars

\* C36: a check starts the add-to-cart automation only when its data is valid
\* and in_stock, the product record it was called with is out_of_stock or
\* unknown (Restocked), and the autoAddToCart flag of that record or the
\* globalAutoAdd of the settings it was called with is true; price drop, sold
\* out, in_stock staying in_stock, junk and fetch failure never start it.
C36_CartOnlyOnRestock ==
  [][\A c \in Callers :
       (chk[c].pc = "fetch" /\ chk'[c].pc = "idle"
          /\ CountFx(obs'.last.fx, "add_to_cart") > 0)
       => /\ obs'.last.kind = "valid"
          /\ obs'.last.d.stockStatus = "in_stock"
          /\ chk[c].p.stockStatus \in {"out_of_stock", "unknown"}
          /\ chk[c].p.autoAddToCart \/ chk[c].s.globalAutoAdd
          /\ CountFx(obs'.last.fx, "add_to_cart") = 1]_vars

\* a restock started the automation through the flag of the product alone
C36_Witness ==
  /\ Checked({"valid"}) /\ Emits("add_to_cart")
  /\ ~settings.globalAutoAdd
  /\ obs.last.oldStatus = "out_of_stock" /\ obs.last.d.stockStatus = "in_stock"

----------------------------------------------------------------------------
(* The quantity of the automated add-to-cart: the payload of               *)
(* triggerAddToCart and performAddToCart of the content script             *)

MaxQty == 12

\* performAddToCart: targetQty, for the quantity asked, the maxOut flag and
\* what detectPageMaxQuantity() finds on the page (0 for null)
TargetQty(quantity, maxOut, pageMax) ==
  IF maxOut
  THEN IF pageMax > 0 THEN pageMax ELSE Max(quantity, 10)
  ELSE quantity

\* the payload of triggerAddToCart: quantity: product.maxQuantity, maxOut: true
CartPayload(p) == [quantity |-> p.maxQuantity, maxOut |-> TRUE]

InitQty ==
  /\ now = Epoch
  /\ products = <<>>
  /\ settings = DefaultSettings
  /\ isChecking = FALSE
  /\ tick = [k \in TickIds |-> IdleTick]
  /\ chk = [c \in Callers |-> IdleCheck]
  /\ limiter = NewRateLimiter(RL_MAX, RL_WINDOW)
  /\ alarm = NoAlarm
  /\ obs = [kind |-> "none"]

\* one attempt of triggerAddToCart for a product with the maxQuantity given,
\* on a page where detectPageMaxQuantity() finds pageMax
AddToCartMsg(maxQuantity, pageMax) ==
  /\ LET payload == CartPayload([maxQuantity |-> maxQuantity])
     IN  obs' = [kind |-> "add_to_cart", maxQuantity |-> maxQuantity,
                 pageMax |-> pageMax,
                 quantityRequested |->
                   TargetQty(payload.quantity, payload.maxOut, pageMax)]
  /\ UNCHANGED <<products, settings, isChecking, tick, chk, limiter, alarm, now>>

NextQty ==
  \E maxQuantity \in 1..MaxQty, pageMax \in 0..MaxQty :
     AddToCartMsg(maxQuantity, pageMax)

SpecQty == InitQty /\ [][NextQty]_vars

\* C37: the quantity the automated add-to-cart sets on the page is at most
\* the maxQuantity configured for the product.
C37_QtyWithinMax ==
  obs.kind = "add_to_cart" => obs.quantityRequested <= obs.maxQuantity

----------------------------------------------------------------------------
(* Attempts after a reported success *)

\* C38: within one run of triggerAddToCart the content script reports
\* success, having clicked the button, at most once: after a reported success
\* the run makes no further attempt, also when the log entry of the success
\* cannot be written.
C38_AddedOnce == obs.added <= 1

----------------------------------------------------------------------------
(* The stored history under a tick and a check on request of the same      *)
(* product, on a page that goes in and out of stock                        *)

InitSnap ==
  /\ now = Epoch
  /\ products = <<NewProduct(1, PageOut, Epoch)>>
  /\ settings = [DefaultSettings EXCEPT !.maxHistoryPerProduct = MaxHistCap]
  /\ isChecking = FALSE
  /\ tick = [k \in TickIds |-> IdleTick]
  /\ chk = [c \in Callers |-> IdleCheck]
  /\ limiter = NewRateLimiter(RL_MAX, RL_WINDOW)
  /\ alarm = [armed |-> TRUE, period |-> AlarmPeriod(settings),
              scheduledTime |-> Epoch]
  /\ obs = NoObs(products, FALSE)

NextSnap ==
  \/ \E k \in TickIds : OnAlarm(k)
  \/ \E k \in TickIds : TickLoad(k)
  \/ \E k \in TickIds : TickPauseDone(k)
  \/ \E k \in TickIds : TickClose(k)
  \/ CheckNow("now1", 1)
  \/ \E c \in TickIds \cup {"now1"}, res \in {PageOut, PageIn} :
        CheckReturns(c, res, "none")
  \/ AdvanceWithin(EngineStep, MaxEndClock)

SpecSnap == InitSnap /\ [][NextSnap]_vars

\* caller c completes a valid check of product id in this step
CompletesValid(c, id) ==
  /\ chk[c].pc = "fetch" /\ chk'[c].pc = "idle" /\ chk[c].p.id = id
  /\ obs'.last.kind = "valid" /\ obs'.last.caller = c

\* C39: each completed valid check leaves exactly one new snapshot at the
\* front of the product's stored history and keeps every snapshot stored
\* before it, in the same order, except those cut from the tail by the cap;
\* so a snapshot stored by a CHECK_NOW that completes during a tick is still
\* there after the tick has checked the same product.
C39_HistoryKept ==
  [][\A c \in Callers, id \in Ids(products) \cap Ids(products') :
       CompletesValid(c, id)
       => LET h == GetProduct(products, id).history
              g == GetProduct(products', id).history
              kept == IF Len(h) + 1 > settings.maxHistoryPerProduct
                      THEN settings.maxHistoryPerProduct - 1 ELSE Len(h)
          IN  /\ Len(g) = kept + 1
              /\ g[1].timestamp = obs'.last.t
              /\ g[1].stockStatus = obs'.last.d.stockStatus
              /\ Tail(g) = SubSeq(h, 1, kept)]_vars

====
